---- MODULE Spec2Model ----
(***************************************************************************)
(* Model of the tool-calling agent of 6_Agents: the agent loop run_agent   *)
(* (app/agent_app.py) and the catalog tools it dispatches to               *)
(* (tools/tools.py).                                                       *)
(*                                                                         *)
(* Text is modelled as a sequence of atoms.  Text that the code inspects   *)
(* (tool arguments, catalog keys, eligible-industry phrases) is a sequence *)
(* of one-character atoms, so strip(), lower() and the `in` substring test *)
(* are computed character by character.  A constant fragment of an         *)
(* f-string that the code only emits is a single atom holding the whole    *)
(* fragment; an f-string is the concatenation of its fragments.            *)
(***************************************************************************)
EXTENDS Integers, Sequences, FiniteSets, TLC

VARIABLES
    \* ---- one run_agent invocation (agent_app.py) ----
    pc,              \* awaiting_model_turn | dispatching_tools | done | exhausted | raised | idle
    messages,        \* the conversation
    trace,           \* the tool invocation records
    iter,            \* number of loop iterations begun = chat-completion calls made
    max_iterations,  \* the argument max_iterations
    user_question,   \* the argument user_question
    choice,          \* response.choices[0] of the latest model call
    pending,         \* tool calls of choice.message.tool_calls not yet dispatched
    answer,          \* the first component of the returned pair
    error,           \* the exception that left run_agent, if any
    last_request,    \* the arguments of the latest chat-completion call
    \* ---- one direct call of a catalog tool (tools.py) ----
    tool_fn,         \* which tool has been called ("none" before the call)
    tool_in,         \* its string argument (the first one: product_name, coverage_type, industry)
    tool_in2,        \* the second string argument (company_size), <<>> for the one-argument tools
    tool_order,      \* the iteration order of the set _ELIGIBLE_INDUSTRIES in this process
    tool_out,        \* the returned string
    tool_error,      \* the exception that left the call, "none" when it returned
    \* ---- one sentence chunking of a document (rag_utils.py, 5_RAG_App/app.py, agent_app.py) ----
    chunk_pc,        \* "idle" | "loaded" | the module whose chunking code has run
    doc,             \* the document text
    chunks,          \* the returned list of chunks
    \* ---- one retrieval query (backend/search.py, v2 app/search.py, agent_app.py) ----
    search_pc,       \* "idle" | "ready" | the module whose search has run
    collection,      \* the items of the vector collection, in insertion order
    top_k,           \* the argument top_k
    ranked,          \* the ids delivered by collection.query, <<>> before any query
    results,         \* the list returned by search_products
    docs_out,        \* the string returned by search_docs
    queried,         \* number of collection.query calls made
    search_error,    \* the exception that left the search, "none" when it returned
    \* ---- a second run_agent invocation of the same process ----
    parked,          \* the locals of the invocation that is suspended
    \* ---- one seeding of the product store (backend/seed.py, backend/api.py, v2 app) ----
    seed_pc,         \* "idle" | "start" | "looping" | "returned" | "raised"
    seed_variant,    \* the module whose seeding code runs, "none" before it starts
    file_exists,     \* whether seed_products.json exists
    seed_list,       \* the products read from the file, <<>> without a file
    seed_idx,        \* the index of the product the loop is at
    created,         \* the counter created
    errors,          \* the counter errors
    processed,       \* the indices of the products the loop body has run for, in order
    \* ---- one session of a Streamlit application (agent_app.py, 5_RAG_App/app.py) ----
    app_pc,          \* idle | start | built | failed | returned | agent_running | answered | raised | loaded
    app,             \* the application, "none" without one
    data_dir,        \* whether the data directory exists
    md_files,        \* the texts of the .md files of the data directory, sorted by name
    cached,          \* whether st.cache_resource holds the built index
    index_chunks,    \* the chunks of the index
    embed_calls,     \* number of embeddings.create calls made
    collections_created, \* number of create_collection calls made
    query_calls,     \* number of collection.query calls made
    agent_runs,      \* number of run_agent invocations made
    reruns,          \* number of times Streamlit ran main() again
    app_error,       \* the latest exception of the session, "none" without one
    \* ---- one request to POST /debug/similarity (backend/api.py) ----
    sim_pc,          \* "idle" | "received" | "responded"
    texts,           \* request.texts
    status_code,     \* the status of the response, 0 before it
    detail,          \* the detail of an error response
    encoded,         \* number of encode() calls made
    pairwise,        \* the list pairwise of the response, as index pairs
    \* ---- one call of chunk_by_tokens (rag_utils.py) ----
    tok_pc,          \* "idle" | "looping" | "returned"
    tokens,          \* enc.encode(doc), each token as its text
    max_tokens,      \* the argument max_tokens
    overlap_tokens,  \* the argument overlap_tokens
    start,           \* the local variable start
    windows,         \* the (start, end) of every iteration so far
    raw_chunks,      \* the local list chunks
    token_chunks,    \* the returned list
    \* ---- shared by all invocations of the process ----
    registry         \* the dict all_functions: tool name -> function

agent_vars == <<pc, messages, trace, iter, max_iterations, user_question, choice, pending, answer,
                error, last_request>>
tool_vars == <<tool_fn, tool_in, tool_in2, tool_order, tool_out, tool_error>>
chunk_vars == <<chunk_pc, doc, chunks>>
\* the variables of the other operations than run_agent and the catalog tools
search_vars == <<search_pc, collection, top_k, ranked, results, docs_out, queried, search_error>>
shared_vars == <<registry>>
conc_vars == <<parked>>
seed_vars == <<seed_pc, seed_variant, file_exists, seed_list, seed_idx, created, errors, processed>>
\* the variables of the operations outside the agent loop and the seeding
app_vars == <<app_pc, app, data_dir, md_files, cached, index_chunks, embed_calls,
              collections_created, query_calls, agent_runs, reruns, app_error>>
sim_vars == <<sim_pc, texts, status_code, detail, encoded, pairwise>>
tok_vars == <<tok_pc, tokens, max_tokens, overlap_tokens, start, windows, raw_chunks, token_chunks>>
other_vars == <<app_vars, sim_vars, tok_vars>>
aux_vars == <<chunk_vars, search_vars, conc_vars, seed_vars, other_vars>>
\* what a chunking and what a retrieval leave alone
chunk_frame == <<agent_vars, tool_vars, search_vars, conc_vars, seed_vars, shared_vars,
                other_vars>>
search_frame == <<agent_vars, tool_vars, chunk_vars, conc_vars, seed_vars, shared_vars,
                other_vars>>
seed_frame == <<agent_vars, tool_vars, chunk_vars, search_vars, conc_vars, shared_vars,
                other_vars>>
vars == <<pc, messages, trace, iter, max_iterations, user_question, choice, pending, answer,
          error, last_request, tool_fn, tool_in, tool_in2, tool_order, tool_out, tool_error,
          chunk_pc, doc, chunks,
          search_pc, collection, top_k, ranked, results, docs_out, queried, search_error,
          parked, seed_pc, seed_variant, file_exists, seed_list, seed_idx, created, errors,
          processed, registry,
          app_pc, app, data_dir, md_files, cached, index_chunks, embed_calls,
          collections_created, query_calls, agent_runs, reruns, app_error,
          sim_pc, texts, status_code, detail, encoded, pairwise,
          tok_pc, tokens, max_tokens, overlap_tokens, start, windows, raw_chunks, token_chunks>>

None == <<"None">>
\* the local variable choice before the first model call
NoChoice == [finish_reason |-> "unset",
             message |-> [role |-> "unset", content |-> "", tool_calls |-> <<>>]]

\* no document is being chunked
ChunkIdle == chunk_pc = "idle" /\ doc = <<>> /\ chunks = <<>>

\* no retrieval query
SearchIdle ==
    /\ search_pc = "idle"
    /\ collection = <<>>
    /\ top_k = 0
    /\ ranked = <<>>
    /\ results = <<>>
    /\ docs_out = <<>>
    /\ queried = 0
    /\ search_error = "none"

\* the locals of an invocation that does not exist
IdleLocals ==
    [pc |-> "idle", messages |-> <<>>, trace |-> <<>>, iter |-> 0, max_iterations |-> 0,
     user_question |-> None, choice |-> NoChoice, pending |-> <<>>, answer |-> None,
     error |-> None, last_request |-> None]

\* no second invocation
ConcIdle == parked = IdleLocals

\* no seeding
SeedIdle ==
    /\ seed_pc = "idle"
    /\ seed_variant = "none"
    /\ file_exists = TRUE
    /\ seed_list = <<>>
    /\ seed_idx = 0
    /\ created = 0
    /\ errors = 0
    /\ processed = <<>>

\* no application session
AppIdle ==
    /\ app_pc = "idle"
    /\ app = "none"
    /\ data_dir = TRUE
    /\ md_files = <<>>
    /\ cached = FALSE
    /\ index_chunks = <<>>
    /\ embed_calls = 0
    /\ collections_created = 0
    /\ query_calls = 0
    /\ agent_runs = 0
    /\ reruns = 0
    /\ app_error = "none"

\* no similarity request
SimIdle ==
    /\ sim_pc = "idle"
    /\ texts = <<>>
    /\ status_code = 0
    /\ detail = <<>>
    /\ encoded = 0
    /\ pairwise = <<>>

\* no token chunking
TokIdle ==
    /\ tok_pc = "idle"
    /\ tokens = <<>>
    /\ max_tokens = 0
    /\ overlap_tokens = 0
    /\ start = 0
    /\ windows = <<>>
    /\ raw_chunks = <<>>
    /\ token_chunks = <<>>

\* none of the operations outside the agent loop and the seeding
OtherIdle == AppIdle /\ SimIdle /\ TokIdle

AuxIdle == ChunkIdle /\ SearchIdle /\ ConcIdle /\ SeedIdle /\ OtherIdle

\* no run_agent invocation
AgentIdle ==
    /\ pc = "idle"
    /\ messages = <<>>
    /\ trace = <<>>
    /\ iter = 0
    /\ max_iterations = 0
    /\ user_question = None
    /\ choice = NoChoice
    /\ pending = <<>>
    /\ answer = None
    /\ error = None
    /\ last_request = None

\* no direct tool call
ToolIdle ==
    /\ tool_fn = "none"
    /\ tool_in = <<>>
    /\ tool_in2 = <<>>
    /\ tool_order = <<>>
    /\ tool_out = None
    /\ tool_error = "none"


(***************************************************************************)
(* Bounds of the model.                                                    *)
(***************************************************************************)
\* largest number of segments between periods in a document
MaxSegments == 3
\* largest number of items of mixed kinds in a collection
MaxItems == 3
\* largest limit of a product search
MaxK == 3
\* largest max_iterations of two interleaved invocations
MaxConcIter == 1
\* largest number of products in the seed list
MaxProducts == 3
\* largest max_iterations tried
MaxIter == 2
\* largest number of tool calls in one model response
MaxCalls == 2
\* catalog keys and phrases are cut by up to MaxCut characters at each end
MaxCut == 2
\* files of the data directory, reruns of main() and retrieval queries of one session
MaxFiles == 2
MaxReruns == 2
MaxQueries == 2
\* texts of one similarity request
MaxTexts == 3
\* tokens of a document, size of a token window, iterations of the window loop
MaxTokens == 6
MaxWindow == 3
MaxSteps == 8

(***************************************************************************)
(* str.strip(), str.lower() and the substring test `a in b`.               *)
(***************************************************************************)
Whitespace == {" ", "\t", "\n", "\r"}

Uppers == <<"A","B","C","D","E","F","G","H","I","J","K","L","M","N","O","P","Q","R","S","T","U","V","W","X","Y","Z">>
Lowers == <<"a","b","c","d","e","f","g","h","i","j","k","l","m","n","o","p","q","r","s","t","u","v","w","x","y","z">>
\* str.lower() on one character: A-Z go to a-z, every other character stays.
LowerChar(c) ==
    IF \E i \in 1..Len(Uppers) : Uppers[i] = c
    THEN Lowers[CHOOSE i \in 1..Len(Uppers) : Uppers[i] = c]
    ELSE c

lower(s) == [i \in 1..Len(s) |-> LowerChar(s[i])]

\* str.strip(): drop the leading and the trailing run of whitespace.
strip(s) ==
    LET keep == {i \in 1..Len(s) : s[i] \notin Whitespace}
    IN  IF keep = {} THEN <<>>
        ELSE LET lo == CHOOSE i \in keep : \A j \in keep : i <= j
                 hi == CHOOSE i \in keep : \A j \in keep : j <= i
             IN  SubSeq(s, lo, hi)

\* a containment test that the empty string never passes
InNonEmpty(a, b) ==
    a # <<>> /\ \E i \in 0..(Len(b) - Len(a)) : SubSeq(b, i + 1, i + Len(a)) = a

\* Python's `a in b` for strings: a occurs in b as a contiguous run.
In(a, b) ==
    \E i \in 0..(Len(b) - Len(a)) : SubSeq(b, i + 1, i + Len(a)) = a

(***************************************************************************)
(* Tool 1: get_product_info.                                               *)
(***************************************************************************)
PRODUCTS ==
  << [key |-> <<"a","i"," ","i","n","f","r","a","s","t","r","u","c","t","u","r","e"," ","&"," ","o","p","e","r","a","t","i","o","n","s"," ","p","r","o","t","e","c","t","i","o","n">>,
      description |-> "Covers failures in AI compute infrastructure, cloud dependencies, and operational outages caused by model or pipeline failures."],
     [key |-> <<"a","g","e","n","t","i","c"," ","a","i"," ","l","i","a","b","i","l","i","t","y"," ","i","n","s","u","r","a","n","c","e">>,
      description |-> "Covers third-party liability arising from decisions or actions taken by autonomous AI agents on behalf of the insured."],
     [key |-> <<"a","u","t","o","n","o","m","o","u","s"," ","s","y","s","t","e","m","s"," ","&"," ","r","o","b","o","t","i","c","s"," ","c","o","v","e","r","a","g","e">>,
      description |-> "Covers physical damage, liability, and operational risk for robotics and autonomous vehicle deployments."],
     [key |-> <<"c","o","m","p","l","i","a","n","c","e"," ","&"," ","r","e","g","u","l","a","t","o","r","y"," ","s","h","i","e","l","d">>,
      description |-> "Covers regulatory fines, legal defence costs, and compliance remediation arising from AI-related regulatory actions."],
     [key |-> <<"a","g","e","n","t","i","c"," ","w","o","r","k","f","l","o","w"," ","u","p","t","i","m","e"," ","i","n","s","u","r","a","n","c","e">>,
      description |-> "Covers business interruption losses when agentic workflows go offline or produce degraded output."],
     [key |-> <<"i","n","t","e","l","l","e","c","t","u","a","l"," ","p","r","o","p","e","r","t","y"," ","&"," ","o","u","t","p","u","t"," ","p","r","o","t","e","c","t","i","o","n">>,
      description |-> "Covers IP infringement claims and disputes arising from AI-generated content or model outputs."],
     [key |-> <<"m","o","d","e","l"," ","&"," ","d","a","t","a"," ","s","e","c","u","r","i","t","y"," ","i","n","s","u","r","a","n","c","e">>,
      description |-> "Covers breaches, adversarial attacks, data poisoning, and model theft incidents."],
     [key |-> <<"a","i"," ","i","n","c","i","d","e","n","t"," ","r","e","s","p","o","n","s","e"," ","&"," ","c","r","i","s","i","s"," ","m","a","n","a","g","e","m","e","n","t">>,
      description |-> "Covers the cost of technical triage, root cause analysis, PR response, and legal coordination following an AI incident."],
     [key |-> <<"s","y","n","t","h","e","t","i","c"," ","d","a","t","a"," ","&"," ","d","a","t","a","s","e","t"," ","i","n","t","e","g","r","i","t","y"," ","c","o","v","e","r","a","g","e">>,
      description |-> "Covers liability and losses arising from flawed synthetic datasets used in model training."] >>
ProductKeys == [i \in 1..Len(PRODUCTS) |-> PRODUCTS[i].key]

\* ', '.join(xs)
RECURSIVE Join(_)
Join(xs) ==
    IF xs = <<>> THEN <<>>
    ELSE IF Len(xs) = 1 THEN xs[1]
    ELSE xs[1] \o <<", ">> \o Join(Tail(xs))

\* key in PRODUCTS
IsProductKey(key) == \E i \in 1..Len(PRODUCTS) : PRODUCTS[i].key = key

\* a fallback that only accepts a partial name
ProductMatchesPartOnly(key, product_key) == In(key, product_key)

\* a fallback that only accepts a name with text around it
ProductMatchesAroundOnly(key, product_key) == In(product_key, key)

\* the loop condition of the substring fallback
ProductMatches(key, product_key) == In(key, product_key) \/ In(product_key, key)

NotFoundMessage(product_name) ==
    <<"No product named '">> \o product_name \o <<"' found. Available products: ">>
        \o Join(ProductKeys) \o <<".">>

\* a loop over the catalog from its end: the i-th entry visited is the i-th
\* from the back
RECURSIVE ProductLoopFromEnd(_, _, _)
ProductLoopFromEnd(product_name, key, i) ==
    IF i > Len(PRODUCTS) THEN NotFoundMessage(product_name)
    ELSE IF ProductMatches(key, PRODUCTS[Len(PRODUCTS) + 1 - i].key)
    THEN <<PRODUCTS[Len(PRODUCTS) + 1 - i].description>>
    ELSE ProductLoopFromEnd(product_name, key, i + 1)

\* the for loop over PRODUCTS.items(), from entry i on, in declaration order
RECURSIVE ProductLoop(_, _, _)
ProductLoop(product_name, key, i) ==
    IF i > Len(PRODUCTS) THEN NotFoundMessage(product_name)
    ELSE IF ProductMatches(key, PRODUCTS[i].key) THEN <<PRODUCTS[i].description>>
    ELSE ProductLoop(product_name, key, i + 1)

get_product_info(product_name) ==
    LET key == lower(strip(product_name))
    IN  IF IsProductKey(key)
        THEN <<PRODUCTS[CHOOSE i \in 1..Len(PRODUCTS) : PRODUCTS[i].key = key].description>>
        ELSE ProductLoop(product_name, key, 1)

(***************************************************************************)
(* Tool 2: get_pricing_estimate.                                           *)
(***************************************************************************)
SIZE_STARTUP == <<"s","t","a","r","t","u","p">>
SIZE_MID_MARKET == <<"m","i","d","-","m","a","r","k","e","t">>
SIZE_ENTERPRISE == <<"e","n","t","e","r","p","r","i","s","e">>

\* a table whose mid-market row is a tenth of what it should be
BASE_PREMIUMS_LowMidMarket ==
    << [size |-> SIZE_STARTUP,    low |-> 5000,  mid |-> 12000,  high |-> 25000],
       [size |-> SIZE_MID_MARKET, low |-> 2000,  mid |-> 4500,   high |-> 9000],
       [size |-> SIZE_ENTERPRISE, low |-> 75000, mid |-> 150000, high |-> 300000] >>

BASE_PREMIUMS ==
    << [size |-> SIZE_STARTUP,    low |-> 5000,  mid |-> 12000,  high |-> 25000],
       [size |-> SIZE_MID_MARKET, low |-> 20000, mid |-> 45000,  high |-> 90000],
       [size |-> SIZE_ENTERPRISE, low |-> 75000, mid |-> 150000, high |-> 300000] >>

\* A multiplier is the IEEE-754 double nearest to tenths/10.  That double is
\* tenths/10 + err/(10 * 2^52): err is 10*M - tenths*2^52 for the double's
\* 53-bit significand M (1.4 is stored slightly below 1.4, 1.6 slightly above).
COVERAGE_MULTIPLIERS ==
    << [coverage |-> PRODUCTS[2].key, tenths |-> 14, err |-> -4],
       [coverage |-> PRODUCTS[3].key, tenths |-> 16, err |-> 4],
       [coverage |-> PRODUCTS[4].key, tenths |-> 12, err |-> -2],
       [coverage |-> PRODUCTS[7].key, tenths |-> 13, err |-> 2],
       [coverage |-> PRODUCTS[8].key, tenths |-> 11, err |-> 4] >>

\* the default of _COVERAGE_MULTIPLIERS.get(..., 1.0)
DefaultMultiplier == [tenths |-> 10, err |-> 0]

\* the largest power of two that is <= n, for n >= 1
RECURSIVE Pow2Floor(_)
Pow2Floor(n) == IF n < 2 THEN 1 ELSE 2 * Pow2Floor(n \div 2)

\* int(base * multiplier) in double arithmetic.  The exact product is
\* base*tenths/10 + base*err/(10 * 2^52).  When base*tenths/10 is an integer N
\* and err < 0 the exact product lies just below N; the multiplication rounds
\* it to the nearest double, which is N when the distance to N is at most half
\* the spacing of the doubles below N (a tie goes to N, whose significand is
\* even), and a double below N otherwise, which int() truncates to N - 1.
FloatMulTrunc(base, m) ==
    LET n10 == base * m.tenths
        N == n10 \div 10
        p == Pow2Floor(N)
        halfGap == IF N = p THEN (5 * p) \div 2 ELSE 5 * p
    IN  IF n10 % 10 # 0 \/ m.err >= 0 \/ N = 0 THEN N
        ELSE IF base * (0 - m.err) > halfGap THEN N - 1
        ELSE N

Digits == <<"0", "1", "2", "3", "4", "5", "6", "7", "8", "9">>

\* str(n) for 0 <= n
RECURSIVE Decimal(_)
Decimal(n) ==
    IF n < 10 THEN <<Digits[n + 1]>>
    ELSE Decimal(n \div 10) \o <<Digits[(n % 10) + 1]>>

\* n as exactly three digits
ThreeDigits(n) ==
    <<Digits[(n \div 100) + 1], Digits[((n \div 10) % 10) + 1], Digits[(n % 10) + 1]>>

\* f"{n:,}": decimal digits in groups of three separated by commas
RECURSIVE FormatThousands(_)
FormatThousands(n) ==
    IF n < 1000 THEN Decimal(n)
    ELSE FormatThousands(n \div 1000) \o <<",">> \o ThreeDigits(n % 1000)

EN_DASH == "<U+2013>"

\* whether the subscript _BASE_PREMIUMS[size_key] finds an entry
HasBasePremiums(size_key) == \E i \in 1..Len(BASE_PREMIUMS) : BASE_PREMIUMS[i].size = size_key

\* a tool without the size guard
IsKnownSizeAlways(size_key) == TRUE

\* the guard: `size_key not in _BASE_PREMIUMS` is its negation
IsKnownSize(size_key) == HasBasePremiums(size_key)

UnknownSize(company_size) ==
    <<"Unknown company size '">> \o company_size
        \o <<"'. ", "Please use: startup, mid-market, or enterprise.">>

\* a lookup that accepts partial names, as the product lookup does
MultiplierByContainment(coverage_key) ==
    LET hits == {i \in 1..Len(COVERAGE_MULTIPLIERS) :
                    \/ In(coverage_key, COVERAGE_MULTIPLIERS[i].coverage)
                    \/ In(COVERAGE_MULTIPLIERS[i].coverage, coverage_key)}
    IN  IF hits # {}
        THEN LET e == COVERAGE_MULTIPLIERS[CHOOSE i \in hits : \A j \in hits : i <= j]
             IN  [tenths |-> e.tenths, err |-> e.err]
        ELSE DefaultMultiplier

\* _COVERAGE_MULTIPLIERS.get(coverage_type.strip().lower(), 1.0)
Multiplier(coverage_key) ==
    IF \E i \in 1..Len(COVERAGE_MULTIPLIERS) : COVERAGE_MULTIPLIERS[i].coverage = coverage_key
    THEN LET e == COVERAGE_MULTIPLIERS[CHOOSE i \in 1..Len(COVERAGE_MULTIPLIERS) :
                                          COVERAGE_MULTIPLIERS[i].coverage = coverage_key]
         IN  [tenths |-> e.tenths, err |-> e.err]
    ELSE DefaultMultiplier

\* the three premiums computed for a recognized size
Premiums(coverage_type, size_key) ==
    LET base == BASE_PREMIUMS[CHOOSE i \in 1..Len(BASE_PREMIUMS) : BASE_PREMIUMS[i].size = size_key]
        multiplier == Multiplier(lower(strip(coverage_type)))
    IN  [low  |-> FloatMulTrunc(base.low, multiplier),
         mid  |-> FloatMulTrunc(base.mid, multiplier),
         high |-> FloatMulTrunc(base.high, multiplier)]

get_pricing_estimate(coverage_type, company_size) ==
    LET size_key == lower(strip(company_size))
    IN  IF ~ IsKnownSize(size_key)
        THEN UnknownSize(company_size)
        ELSE LET p == Premiums(coverage_type, size_key)
             IN  <<"Estimated annual premium for '">> \o coverage_type \o <<"' ", "(">>
                    \o company_size \o <<"): $">> \o FormatThousands(p.low)
                    \o <<" ", EN_DASH, " $">> \o FormatThousands(p.high) \o <<" ", "(midpoint ~$">>
                    \o FormatThousands(p.mid) \o <<"). ",
                          "Final pricing subject to full underwriting assessment.">>

\* the exception that leaves get_pricing_estimate: the subscript after the guard
\* raises KeyError when the table has no entry for size_key
PricingError(company_size) ==
    LET size_key == lower(strip(company_size))
    IN  IF IsKnownSize(size_key) /\ ~ HasBasePremiums(size_key) THEN "KeyError" ELSE "none"

(***************************************************************************)
(* Tool 3: check_eligibility.                                              *)
(***************************************************************************)
\* the elements of _ELIGIBLE_INDUSTRIES, in the order of the set literal
ELIGIBLE_DECLARED ==
  << <<"a","i"," ","s","t","a","r","t","u","p","s">>,
     <<"l","l","m"," ","a","p","p","l","i","c","a","t","i","o","n"," ","p","r","o","v","i","d","e","r","s">>,
     <<"e","n","t","e","r","p","r","i","s","e","s"," ","d","e","p","l","o","y","i","n","g"," ","a","u","t","o","n","o","m","o","u","s"," ","a","g","e","n","t","s">>,
     <<"r","o","b","o","t","i","c","s"," ","d","e","v","e","l","o","p","e","r","s">>,
     <<"a","u","t","o","n","o","m","o","u","s"," ","v","e","h","i","c","l","e"," ","d","e","v","e","l","o","p","e","r","s">>,
     <<"s","y","n","t","h","e","t","i","c"," ","d","a","t","a"," ","o","r","g","a","n","i","z","a","t","i","o","n","s">>,
     <<"m","o","d","e","l"," ","t","r","a","i","n","i","n","g"," ","o","r","g","a","n","i","z","a","t","i","o","n","s">>,
     <<"h","e","a","l","t","h","c","a","r","e">>,
     <<"f","i","n","a","n","c","e">>,
     <<"l","e","g","a","l">>,
     <<"r","e","g","u","l","a","t","e","d"," ","i","n","d","u","s","t","r","i","e","s">> >>
ELIGIBLE_INDUSTRIES == {ELIGIBLE_DECLARED[i] : i \in 1..Len(ELIGIBLE_DECLARED)}

\* a match in one direction only
EligibleMatchesOneWay(key, eligible) == In(eligible, key)

\* the loop condition
EligibleMatches(key, eligible) == In(eligible, key) \/ In(key, eligible)

Affirmative(industry) ==
    <<"'">> \o industry \o <<"' is within AI Agent Insure's target market. ",
                             "Coverage options are available.">>

NotListed(industry) ==
    <<"'">> \o industry \o <<"' is not currently listed as a target market segment. ",
                             "AI Agent Insure focuses on AI-native companies and regulated industries ",
                             "adopting AI. A custom underwriting review may still be possible.">>

\* the for loop over the set, visiting its elements in the order `order`
RECURSIVE EligibilityLoop(_, _, _)
EligibilityLoop(industry, key, order) ==
    IF order = <<>> THEN NotListed(industry)
    ELSE IF EligibleMatches(key, Head(order)) THEN Affirmative(industry)
    ELSE EligibilityLoop(industry, key, Tail(order))

check_eligibility(industry, order) ==
    EligibilityLoop(industry, lower(strip(industry)), order)

\* The iteration orders of the set that are tried: every rotation of the
\* declaration order, and the declaration order backwards.
Rotate(s, k) == [i \in 1..Len(s) |-> s[((i + k - 1) % Len(s)) + 1]]
Reverse(s) == [i \in 1..Len(s) |-> s[Len(s) + 1 - i]]
IterationOrders ==
    {Rotate(ELIGIBLE_DECLARED, k) : k \in 0..(Len(ELIGIBLE_DECLARED) - 1)}
        \cup {Reverse(ELIGIBLE_DECLARED)}

(***************************************************************************)
(* Inputs of the direct tool calls.                                        *)
(***************************************************************************)
Examples ==
  { <<"r","o","b","o","t","i","c","s"," ","s","t","a","r","t","u","p">>,
    <<"R","O","B","O","T","I","C","S"," ","c","o","v","e","r","a","g","e">>,
    <<"r","o","b","o","t","i","c","s"," ","c","o","v","e","r","a","g","e">>,
    <<"i","n","s","u","r","a","n","c","e">>,
    <<"h","e","a","l","t","h","c","a","r","e"," ","c","o","m","p","a","n","y">>,
    <<"p","e","t"," ","g","r","o","o","m","i","n","g">>,
    <<"a","i">>,
    <<"c","o","v","e","r","a","g","e">>,
    <<"L","e","g","a","l">>,
    <<"s","t","a","r","t","u","p">>,
    <<"a","g","e","n","t","i","c">> }
RoboticsStartup == <<"r","o","b","o","t","i","c","s"," ","s","t","a","r","t","u","p">>
RoboticsCoverageUpper == <<"R","O","B","O","T","I","C","S"," ","c","o","v","e","r","a","g","e">>
RoboticsKey == <<"a","u","t","o","n","o","m","o","u","s"," ","s","y","s","t","e","m","s"," ","&"," ","r","o","b","o","t","i","c","s"," ","c","o","v","e","r","a","g","e">>
RoboticsDevelopers == <<"r","o","b","o","t","i","c","s"," ","d","e","v","e","l","o","p","e","r","s">>
\* str.upper() on one character (only used to build inputs)
UpperChar(c) ==
    IF \E i \in 1..Len(Lowers) : Lowers[i] = c
    THEN Uppers[CHOOSE i \in 1..Len(Lowers) : Lowers[i] = c]
    ELSE c
upper(s) == [i \in 1..Len(s) |-> UpperChar(s[i])]

Phrases == {PRODUCTS[i].key : i \in 1..Len(PRODUCTS)} \cup ELIGIBLE_INDUSTRIES

\* a phrase with a characters cut at the front and b at the back
Cut(s, a, b) == SubSeq(s, 1 + a, Len(s) - b)

Cores == Examples \cup {<<>>}
            \cup {Cut(s, a, b) : s \in Phrases, a \in 0..MaxCut, b \in 0..MaxCut}

\* text put in front of and behind a core, and whether the core is upper-cased
Decorations ==
    { <<<<>>, <<>>, FALSE>>,
      <<<<>>, <<>>, TRUE>>,
      <<<<" ", " ">>, <<" ">>, FALSE>>,
      <<<<"\t">>, <<"\n">>, TRUE>>,
      <<<<"m", "y", " ">>, <<>>, FALSE>>,
      <<<<>>, <<" ", "i", "n", "c">>, FALSE>>,
      <<<<" ", "X">>, <<"s", " ">>, FALSE>> }

Decorate(d, c) == d[1] \o (IF d[3] THEN upper(c) ELSE c) \o d[2]

ToolInputs == {Decorate(d, c) : d \in Decorations, c \in Cores}

\* values of the argument company_size: the three sizes as written in the
\* table, with other capitalisation and surrounding whitespace, and strings
\* that name no size
SizeInputs ==
    { SIZE_STARTUP, SIZE_MID_MARKET, SIZE_ENTERPRISE,
      <<" ">> \o upper(SIZE_MID_MARKET) \o <<"\n">>,
      <<"S">> \o Tail(SIZE_STARTUP),
      <<"s","m","a","l","l">>,
      <<"m","i","d"," ","m","a","r","k","e","t">>,
      <<>> }

(***************************************************************************)
(* The tool registry of the agent app.                                     *)
(***************************************************************************)
\* TOOL_SCHEMAS: the name and the required parameters of each schema
TOOL_SCHEMAS ==
    << [name |-> "get_product_info",     required |-> <<"product_name">>],
       [name |-> "get_pricing_estimate", required |-> <<"coverage_type", "company_size">>],
       [name |-> "check_eligibility",    required |-> <<"industry">>] >>

SEARCH_DOCS_SCHEMA == [name |-> "search_docs", required |-> <<"query">>]

\* TOOL_FUNCTIONS: tool name -> the function bound to it
TOOL_FUNCTIONS ==
    [n \in {"get_product_info", "get_pricing_estimate", "check_eligibility"} |-> n]

\* main(): all_schemas and all_functions
all_schemas == Append(TOOL_SCHEMAS, SEARCH_DOCS_SCHEMA)

\* a registry without the document search
all_functions_CatalogOnly == TOOL_FUNCTIONS

all_functions == [n \in DOMAIN TOOL_FUNCTIONS \cup {"search_docs"} |->
                    IF n \in DOMAIN TOOL_FUNCTIONS THEN TOOL_FUNCTIONS[n] ELSE "search_docs"]

\* the parameter names in the signature of each function
Parameters(fn) ==
    CASE fn = "get_product_info"     -> {"product_name"}
      [] fn = "get_pricing_estimate" -> {"coverage_type", "company_size"}
      [] fn = "check_eligibility"    -> {"industry"}
      [] fn = "search_docs"          -> {"query"}

TOP_K == 5

\* sep.join(xs) for a list of whole-text atoms
RECURSIVE JoinAtoms(_, _)
JoinAtoms(xs, sep) ==
    IF xs = <<>> THEN <<>>
    ELSE IF Len(xs) = 1 THEN <<xs[1]>>
    ELSE <<xs[1], sep>> \o JoinAtoms(Tail(xs), sep)

\* search_docs: the documents the collection returns for the query, joined
search_docs(retrieved) ==
    IF retrieved = <<>>
    THEN <<"No relevant content found in the document for that query.">>
    ELSE JoinAtoms(retrieved, "\n---\n")

\* What a call of fn_name depends on besides its arguments: the iteration
\* order of the eligible-industry set, the documents the collection returns,
\* whether the embedding call of search_docs returns.
Environments(fn_name) ==
    [order : IF fn_name = "check_eligibility" THEN IterationOrders ELSE {ELIGIBLE_DECLARED},
     retrieved : IF fn_name = "search_docs" THEN {<<>>, <<"chunk 7.", "chunk 2.">>} ELSE {<<>>},
     embedded : IF fn_name = "search_docs" THEN BOOLEAN ELSE {TRUE}]

\* all_functions[fn_name](**fn_args), fn_name being a key of all_functions
Invoke(fn_name, fn_args, env) ==
    LET fn == registry[fn_name]
    IN  IF DOMAIN fn_args # Parameters(fn)
        THEN [raised |-> TRUE, error |-> "TypeError", value |-> None]
        ELSE IF fn = "search_docs" /\ ~ env.embedded
        THEN [raised |-> TRUE, error |-> "EmbeddingAPIError", value |-> None]
        ELSE [raised |-> FALSE, error |-> "",
              value |-> CASE fn = "get_product_info" -> get_product_info(fn_args["product_name"])
                          [] fn = "get_pricing_estimate" ->
                                get_pricing_estimate(fn_args["coverage_type"], fn_args["company_size"])
                          [] fn = "check_eligibility" -> check_eligibility(fn_args["industry"], env.order)
                          [] fn = "search_docs" -> search_docs(env.retrieved)]

\* a parser that takes whatever it can read of a malformed text
json_loads_Lenient(arguments) == [raised |-> FALSE, error |-> "", value |-> arguments.value]

\* json.loads(tc.function.arguments)
json_loads(arguments) ==
    IF arguments.json = "object"
    THEN [raised |-> FALSE, error |-> "", value |-> arguments.value]
    ELSE [raised |-> TRUE, error |-> "JSONDecodeError", value |-> None]

(***************************************************************************)
(* The responses of the chat model.                                        *)
(***************************************************************************)
JsonObject(dict) == [json |-> "object", value |-> dict]

QueryText == <<"c","l","a","i","m","s"," ","p","r","o","c","e","s","s">>

\* The tool calls a response can request are the runs of at most MaxCalls
\* consecutive entries of this list.  The tool cancel_policy is in no registry;
\* the last entry names a parameter the function does not have.
ToolCallMenu ==
    << [name |-> "get_product_info",
        arguments |-> JsonObject([product_name |-> RoboticsCoverageUpper])],
       [name |-> "check_eligibility",
        arguments |-> JsonObject([industry |-> RoboticsStartup])],
       [name |-> "search_docs",
        arguments |-> JsonObject([query |-> QueryText])],
       [name |-> "get_pricing_estimate",
        arguments |-> JsonObject([coverage_type |-> PRODUCTS[2].key, company_size |-> SIZE_MID_MARKET])],
       [name |-> "cancel_policy",
        arguments |-> JsonObject([policy |-> QueryText])],
       [name |-> "check_eligibility",
        arguments |-> JsonObject([industry |-> PRODUCTS[3].key])],
       [name |-> "get_product_info",
        arguments |-> [json |-> "malformed", value |-> [product_name |-> <<"{">>]]],
       [name |-> "check_eligibility",
        arguments |-> JsonObject([sector |-> RoboticsStartup])] >>

\* the tool calls of the response of model call number n: entries from..to of
\* the menu, each with an id of its own
ToolCalls(n, from, to) ==
    [j \in 1..(to - from + 1) |->
        [id |-> <<"call", n, j>>,
         name |-> ToolCallMenu[from + j - 1].name,
         arguments |-> ToolCallMenu[from + j - 1].arguments]]

\* <<from, to>> of every run of at most MaxCalls consecutive menu entries
MenuRuns ==
    {w \in (1..Len(ToolCallMenu)) \X (1..Len(ToolCallMenu)) : w[1] <= w[2] /\ w[2] - w[1] < MaxCalls}

FinalContents == {"It costs about $63,000.", "Yes, you qualify."}

\* response.choices[0] of model call number n
Choices(n) ==
    {[finish_reason |-> "stop",
      message |-> [role |-> "assistant", content |-> c, tool_calls |-> <<>>]] : c \in FinalContents}
    \cup
    {[finish_reason |-> "length",
      message |-> [role |-> "assistant", content |-> "It costs ab", tool_calls |-> <<>>]]}
    \cup
    {[finish_reason |-> "tool_calls",
      message |-> [role |-> "assistant", content |-> "", tool_calls |-> ToolCalls(n, w[1], w[2])]] :
        w \in MenuRuns}

(***************************************************************************)
(* run_agent.                                                              *)
(***************************************************************************)
SYSTEM_PROMPT == "You are a helpful assistant for AI Agent Insure, a specialty insurer for AI systems, autonomous agents, and ML infrastructure. Use search_docs to look up detailed information from the company document. Use the other tools for structured lookups (product details, pricing, eligibility). Call as many tools as you need - do not guess when a tool can give you the answer."

MODEL == "gpt-4o-mini"

Questions == {"What would Agentic AI Liability Insurance cost for a mid-market company?",
              "Is a robotics startup eligible?"}

\* a sentinel that reports the number of the last iteration, counted from 0
SentinelFromZero(n) ==
    <<"[Agent stopped after ">> \o Decimal(IF n = 0 THEN 0 ELSE n - 1)
        \o <<" iterations without a final answer]">>

\* the value returned when the loop runs out
Sentinel(n) ==
    <<"[Agent stopped after ">> \o Decimal(n) \o <<" iterations without a final answer]">>

\* a loop that runs one iteration too many
LoopContinuesOffByOne(i, max) == i <= max

\* for _ in range(max_iterations): is there an iteration after i of them?
LoopContinues(i, max) == i < max

\* a request that sends the seed of the conversation only
RequestSeedOnly(msgs) ==
    [model |-> MODEL, messages |-> SubSeq(msgs, 1, 2), tools |-> all_schemas,
     tool_choice |-> "auto", temperature |-> 0]

\* the arguments of openai_client.chat.completions.create
Request(msgs) ==
    [model |-> MODEL, messages |-> msgs, tools |-> all_schemas,
     tool_choice |-> "auto", temperature |-> 0]

Init ==
    /\ max_iterations \in 0..MaxIter
    /\ user_question \in Questions
    /\ messages = << [role |-> "system", content |-> SYSTEM_PROMPT],
                     [role |-> "user", content |-> user_question] >>
    /\ trace = <<>>
    /\ iter = 0
    /\ choice = NoChoice
    /\ pending = <<>>
    /\ error = None
    /\ last_request = None
    /\ pc = IF LoopContinues(0, max_iterations) THEN "awaiting_model_turn" ELSE "exhausted"
    /\ answer = IF LoopContinues(0, max_iterations) THEN None ELSE Sentinel(max_iterations)
    /\ tool_fn = "none"
    /\ tool_in = <<>>
    /\ tool_in2 = <<>>
    /\ tool_order = <<>>
    /\ tool_out = None
    /\ tool_error = "none"
    /\ AuxIdle
    /\ registry = all_functions

\* a loop that goes back to the model after every dispatch
EndIterationBackToModel(i) == pc' = "awaiting_model_turn" /\ answer' = answer

\* The end of loop iteration number i: the next iteration's model call, or the
\* return of the sentinel after the loop.
EndIteration(i) ==
    IF LoopContinues(i, max_iterations)
    THEN pc' = "awaiting_model_turn" /\ answer' = answer
    ELSE pc' = "exhausted" /\ answer' = Sentinel(max_iterations)

\* a loop that returns the content of every response that requests no tool
IsFinalUnlessToolCalls(c) == c.finish_reason # "tool_calls"

\* a loop that does not return on a stop response
IsFinalNever(c) == FALSE

\* if choice.finish_reason == "stop"
IsFinal(c) == c.finish_reason = "stop"

\* One model call and the branch on its finish_reason.
ModelTurn ==
    /\ pc = "awaiting_model_turn"
    /\ iter' = iter + 1
    /\ last_request' = Request(messages)
    /\ \E c \in Choices(iter + 1) :
          /\ choice' = c
          /\ messages' = Append(messages, c.message)
          /\ IF IsFinal(c)
             THEN /\ pc' = "done"
                  /\ answer' = c.message.content
                  /\ pending' = pending
             ELSE IF c.finish_reason = "tool_calls" /\ c.message.tool_calls # <<>>
             THEN /\ pc' = "dispatching_tools"
                  /\ answer' = answer
                  /\ pending' = c.message.tool_calls
             ELSE /\ pending' = pending
                  /\ EndIteration(iter + 1)
    /\ UNCHANGED <<trace, max_iterations, user_question, error>>
    /\ UNCHANGED tool_vars
    /\ UNCHANGED aux_vars
    /\ UNCHANGED shared_vars

\* a loop that catches the failure and goes on to the next iteration
AfterModelFailureContinue(i) == IF LoopContinues(i, max_iterations) THEN "awaiting_model_turn" ELSE "exhausted"

\* where run_agent is after the chat-completion call of iteration i has raised:
\* the call is not inside any try statement, the exception leaves run_agent
AfterModelFailure(i) == "raised"

\* The chat-completion call raises (transport or API failure).
ModelCallFails ==
    /\ pc = "awaiting_model_turn"
    /\ iter' = iter + 1
    /\ last_request' = Request(messages)
    /\ pc' = AfterModelFailure(iter + 1)
    /\ error' = "APIError"
    /\ UNCHANGED <<messages, trace, max_iterations, user_question, choice, pending, answer>>
    /\ UNCHANGED tool_vars
    /\ UNCHANGED aux_vars
    /\ UNCHANGED shared_vars

\* an iteration that takes the calls from the back
IterateBackwards(calls) == [tc |-> calls[Len(calls)], rest |-> SubSeq(calls, 1, Len(calls) - 1)]

\* for tc in choice.message.tool_calls: the call taken next and those left
Iterate(calls) == [tc |-> Head(calls), rest |-> Tail(calls)]

\* a dispatch that answers an unknown tool with an error text and goes on
DispatchOutcomeSkipsUnknown(tc, env) ==
    LET parsed == json_loads(tc.arguments)
    IN  IF parsed.raised THEN parsed
        ELSE IF tc.name \notin DOMAIN registry
        THEN [raised |-> FALSE, error |-> "", value |-> <<"Unknown tool">>]
        ELSE Invoke(tc.name, parsed.value, env)

\* fn_args = json.loads(...); result = all_functions[fn_name](**fn_args)
DispatchOutcome(tc, env) ==
    LET parsed == json_loads(tc.arguments)
    IN  IF parsed.raised THEN parsed
        ELSE IF tc.name \notin DOMAIN registry
        THEN [raised |-> TRUE, error |-> "KeyError", value |-> None]
        ELSE Invoke(tc.name, parsed.value, env)

\* a trace that keeps one record per tool name
AppendTraceOncePerTool(tr, fn_name, fn_args, result) ==
    IF \E i \in 1..Len(tr) : tr[i].tool = fn_name THEN tr
    ELSE Append(tr, [tool |-> fn_name, args |-> fn_args, result |-> result])

\* trace.append({"tool": fn_name, "args": fn_args, "result": result})
AppendTrace(tr, fn_name, fn_args, result) ==
    Append(tr, [tool |-> fn_name, args |-> fn_args, result |-> result])

\* a tool-result message that names the tool instead of the call
AppendToolMessageByName(msgs, tc, result) ==
    Append(msgs, [role |-> "tool", tool_call_id |-> <<"call", tc.name>>, content |-> result])

\* messages.append({"role": "tool", "tool_call_id": tc.id, "content": result})
AppendToolMessage(msgs, tc, result) ==
    Append(msgs, [role |-> "tool", tool_call_id |-> tc.id, content |-> result])

\* The body of the inner loop for the next tool call of the response.
Dispatch ==
    /\ pc = "dispatching_tools"
    /\ LET it == Iterate(pending)
           tc == it.tc
       IN  \E env \in Environments(tc.name) :
              LET out == DispatchOutcome(tc, env)
              IN  IF out.raised
                  THEN /\ pc' = "raised"
                       /\ error' = out.error
                       /\ UNCHANGED <<messages, trace, pending, answer>>
                  ELSE /\ trace' = AppendTrace(trace, tc.name, json_loads(tc.arguments).value,
                                               out.value)
                       /\ messages' = AppendToolMessage(messages, tc, out.value)
                       /\ pending' = it.rest
                       /\ error' = error
                       /\ IF it.rest # <<>>
                          THEN pc' = "dispatching_tools" /\ answer' = answer
                          ELSE EndIteration(iter)
    /\ UNCHANGED <<iter, max_iterations, user_question, choice, last_request>>
    /\ UNCHANGED tool_vars
    /\ UNCHANGED aux_vars
    /\ UNCHANGED shared_vars

Next == ModelTurn \/ ModelCallFails \/ Dispatch

Spec == Init /\ [][Next]_vars


(***************************************************************************)
(* Properties of run_agent.                                                *)
(***************************************************************************)
\* the tool-result messages of a conversation, in order
RECURSIVE ToolMessages(_)
ToolMessages(msgs) ==
    IF msgs = <<>> THEN <<>>
    ELSE (IF Head(msgs).role = "tool" THEN <<Head(msgs)>> ELSE <<>>) \o ToolMessages(Tail(msgs))

\* the tool calls requested by the assistant messages of a conversation, in order
RECURSIVE RequestedCalls(_)
RequestedCalls(msgs) ==
    IF msgs = <<>> THEN <<>>
    ELSE (IF Head(msgs).role = "assistant" THEN Head(msgs).tool_calls ELSE <<>>)
            \o RequestedCalls(Tail(msgs))

Returned == pc \in {"done", "exhausted"}
StopSeen == choice.finish_reason = "stop"

Running == pc \in {"awaiting_model_turn", "dispatching_tools"}

\* C1: run_agent makes at most max_iterations chat-completion calls and it
\* terminates: while it runs it is at a model call of an iteration within the
\* cap or at a pending tool call, every step starts a new iteration of the
\* bounded loop, or takes one of the finitely many pending tool calls, or
\* raises; and it ends, unless a call raised, with a final answer or with the
\* non-convergence sentinel.
C1_TerminatesWithinCap ==
    /\ [](iter <= max_iterations)
    /\ [](pc = "awaiting_model_turn" => iter < max_iterations /\ Choices(iter + 1) # {})
    /\ [](pc = "dispatching_tools" => pending # <<>>)
    /\ [](~Running =>
            \/ pc = "raised"
            \/ pc = "done" /\ answer \in FinalContents
            \/ pc = "exhausted" /\ answer[1] = "[Agent stopped after ")
    /\ [][/\ Running
          /\ \/ iter' = iter + 1
             \/ iter' = iter /\ Len(pending') < Len(pending)
             \/ pc' = "raised"]_vars

C1_Witness == pc = "exhausted" /\ iter = max_iterations /\ max_iterations = MaxIter

\* C2: a response with finish_reason "stop" is appended to the conversation and
\* run_agent returns at once with its content and the trace as it was; after a
\* stop response nothing changes any more.
C2_StopReturnsAtOnce ==
    [][/\ ~StopSeen
       /\ StopSeen' =>
            /\ pc' = "done"
            /\ messages' = Append(messages, choice'.message)
            /\ answer' = choice'.message.content
            /\ trace' = trace
            /\ iter' = iter + 1]_vars

C2_Witness == pc = "done" /\ StopSeen /\ trace # <<>> /\ iter = 2

\* C3: when max_iterations model turns complete and none carried finish_reason
\* "stop", run_agent returns the sentinel naming max_iterations, with the trace
\* of every tool call requested; it does not raise and the answer is no
\* message of the model.
C3_SentinelOnExhaustion ==
    /\ (iter = max_iterations /\ ~StopSeen /\ pc # "raised" /\ pending = <<>>)
          => pc = "exhausted"
    /\ (iter = max_iterations /\ ~StopSeen /\ pc # "raised" /\ pc # "dispatching_tools")
          => pc = "exhausted"
    /\ pc = "exhausted" =>
          /\ answer = <<"[Agent stopped after ">> \o Decimal(max_iterations)
                         \o <<" iterations without a final answer]">>
          /\ iter = max_iterations
          /\ error = None
          /\ \A i \in 1..Len(messages) :
                messages[i].role = "assistant" => <<messages[i].content>> # answer
          /\ Len(trace) = Len(RequestedCalls(messages))
          /\ \A i \in 1..Len(trace) : trace[i].tool = RequestedCalls(messages)[i].name

C3_Witness == pc = "exhausted" /\ max_iterations = 2 /\ Len(trace) >= 2

\* C4: the tool calls of a response are dispatched one at a time in the order
\* the model emitted them; the trace lists the calls in dispatch order, and
\* each tool-result message carries the id of its call and the result of the
\* matching trace record.
C4_DispatchInEmittedOrder ==
    LET req == RequestedCalls(messages)
        res == ToolMessages(messages)
    IN  /\ Len(trace) <= Len(req)
        /\ Len(res) = Len(trace)
        /\ \A i \in 1..Len(trace) :
              /\ trace[i].tool = req[i].name
              /\ trace[i].args = req[i].arguments.value
              /\ res[i].tool_call_id = req[i].id
              /\ res[i].content = trace[i].result
        /\ pc = "dispatching_tools" =>
              /\ pending # <<>>
              /\ pending = SubSeq(req, Len(trace) + 1, Len(req))

C4_Witness ==
    /\ pc = "dispatching_tools"
    /\ Len(trace) >= 1
    /\ Len(choice.message.tool_calls) = 2
    /\ messages[Len(messages)].role = "tool"
    /\ messages[Len(messages)].tool_call_id = choice.message.tool_calls[1].id

\* C5: at every model-turn boundary and at return, trace and tool-result
\* messages correspond one to one: equally many, the i-th record's result is
\* the i-th message's content, and every requested call is recorded once.
C5_TraceMatchesToolMessages ==
    (pc = "awaiting_model_turn" \/ Returned) =>
        LET res == ToolMessages(messages)
        IN  /\ Len(trace) = Len(res)
            /\ \A i \in 1..Len(trace) : trace[i].result = res[i].content
            /\ Len(trace) = Len(RequestedCalls(messages))

C5_Witness ==
    /\ pc = "awaiting_model_turn"
    /\ Len(trace) >= 2
    /\ Len(ToolMessages(messages)) = Len(trace)

\* C6: a requested tool whose name is no key of the registry is never
\* dispatched: run_agent raises at that call, nothing is appended for it, no
\* answer is returned, and the loop does not go on past it.
C6_UnknownToolRaises ==
    LET req == RequestedCalls(messages)
    IN  \A k \in 1..Len(req) :
          (req[k].name \notin DOMAIN all_functions) =>
              /\ Len(trace) < k
              /\ Len(ToolMessages(messages)) < k
              /\ pc \in {"dispatching_tools", "raised"}
              /\ answer = None
              /\ (pc = "raised" /\ Len(trace) = k - 1 /\ req[k].arguments.json = "object")
                    => error = "KeyError"

C6_Witness ==
    /\ pc = "raised"
    /\ error = "KeyError"
    /\ trace # <<>>
    /\ Head(pending).name = "cancel_policy"

(***************************************************************************)
(* Direct calls of the catalog tools: the argument is drawn at the start,  *)
(* one call is made.                                                       *)
(***************************************************************************)
ToolInit ==
    /\ pc = "idle"
    /\ messages = <<>>
    /\ trace = <<>>
    /\ iter = 0
    /\ max_iterations = 0
    /\ user_question = None
    /\ choice = NoChoice
    /\ pending = <<>>
    /\ answer = None
    /\ error = None
    /\ last_request = None
    /\ tool_fn = "none"
    /\ tool_in \in ToolInputs
    /\ tool_in2 = <<>>
    /\ tool_order = <<>>
    /\ tool_out = None
    /\ tool_error = "none"
    /\ AuxIdle
    /\ registry = all_functions

CallGetProductInfo ==
    /\ tool_fn = "none"
    /\ tool_fn' = "get_product_info"
    /\ tool_out' = get_product_info(tool_in)
    /\ UNCHANGED <<tool_in, tool_in2, tool_order, tool_error>>
    /\ UNCHANGED agent_vars
    /\ UNCHANGED aux_vars
    /\ UNCHANGED shared_vars

CallCheckEligibility ==
    /\ tool_fn = "none"
    /\ \E order \in IterationOrders :
          /\ tool_order' = order
          /\ tool_out' = check_eligibility(tool_in, order)
    /\ tool_fn' = "check_eligibility"
    /\ UNCHANGED <<tool_in, tool_in2, tool_error>>
    /\ UNCHANGED agent_vars
    /\ UNCHANGED aux_vars
    /\ UNCHANGED shared_vars

CallGetPricingEstimate ==
    /\ tool_fn = "none"
    /\ \E company_size \in SizeInputs :
          /\ tool_in2' = company_size
          /\ tool_error' = PricingError(company_size)
          /\ tool_out' = IF PricingError(company_size) = "none"
                         THEN get_pricing_estimate(tool_in, company_size)
                         ELSE None
    /\ tool_fn' = "get_pricing_estimate"
    /\ UNCHANGED <<tool_in, tool_order>>
    /\ UNCHANGED agent_vars
    /\ UNCHANGED aux_vars
    /\ UNCHANGED shared_vars

ToolNext == CallGetProductInfo \/ CallGetPricingEstimate \/ CallCheckEligibility

ToolSpec == ToolInit /\ [][ToolNext]_vars

(***************************************************************************)
(* Properties of the catalog tools.                                        *)
(***************************************************************************)
\* a occurs in b as a contiguous run, stated position by position
Occurs(a, b) ==
    \E off \in 0..Len(b) :
        /\ off + Len(a) <= Len(b)
        /\ \A j \in 1..Len(a) : b[off + j] = a[j]

\* the stripped lowercased argument of the call
NormalizedInput == lower(strip(tool_in))

IsAffirmative(out) ==
    /\ Len(out) = Len(tool_in) + 3
    /\ out[1] = "'"
    /\ SubSeq(out, 2, Len(tool_in) + 1) = tool_in
    /\ out[Len(tool_in) + 2] = "' is within AI Agent Insure's target market. "
    /\ out[Len(tool_in) + 3] = "Coverage options are available."

IsNotListed(out) ==
    /\ Len(out) = Len(tool_in) + 4
    /\ out[1] = "'"
    /\ SubSeq(out, 2, Len(tool_in) + 1) = tool_in
    /\ out[Len(tool_in) + 2] = "' is not currently listed as a target market segment. "
    /\ out[Len(tool_in) + 4] = "adopting AI. A custom underwriting review may still be possible."

\* C7: check_eligibility("robotics startup") returns the affirmative message,
\* by substring match against the phrase "robotics developers".
C7_RoboticsStartupAffirmative ==
    (tool_fn = "check_eligibility" /\ tool_in = RoboticsStartup) =>
        /\ IsAffirmative(tool_out)
        /\ RoboticsDevelopers \in ELIGIBLE_INDUSTRIES
        /\ Occurs(RoboticsDevelopers, tool_in) \/ Occurs(tool_in, RoboticsDevelopers)

\* C8: check_eligibility returns the affirmative message exactly when some
\* eligible phrase contains the normalized input or is contained in it, and the
\* not-listed message otherwise, whatever the iteration order of the set.
C8_EligibilityBidirectional ==
    tool_fn = "check_eligibility" =>
        IF \E e \in ELIGIBLE_INDUSTRIES : Occurs(e, NormalizedInput) \/ Occurs(NormalizedInput, e)
        THEN IsAffirmative(tool_out)
        ELSE IsNotListed(tool_out)

\* affirmative only because the input lies inside a phrase, found with an
\* iteration order other than the declared one
C8_Witness ==
    /\ tool_fn = "check_eligibility"
    /\ tool_order # ELIGIBLE_DECLARED
    /\ IsAffirmative(tool_out)
    /\ NormalizedInput # tool_in
    /\ \A e \in ELIGIBLE_INDUSTRIES : ~Occurs(e, NormalizedInput)

\* the catalog entries whose key contains the normalized input
KeysContainingInput == {i \in 1..Len(PRODUCTS) : Occurs(NormalizedInput, PRODUCTS[i].key)}

\* C9: an input whose stripped lowercase form lies in exactly one catalog key
\* gets the description that the exact key gets.
C9_PartialNameResolves ==
    (tool_fn = "get_product_info" /\ Cardinality(KeysContainingInput) = 1) =>
        LET i == CHOOSE j \in KeysContainingInput : TRUE
        IN  /\ tool_out = <<PRODUCTS[i].description>>
            /\ tool_out = get_product_info(PRODUCTS[i].key)

C9_Witness ==
    /\ tool_fn = "get_product_info"
    /\ tool_in = RoboticsCoverageUpper
    /\ KeysContainingInput = {3}
    /\ tool_out = get_product_info(RoboticsKey)

IsNotFound(out) ==
    /\ Len(out) > Len(tool_in) + 2
    /\ out[1] = "No product named '"
    /\ SubSeq(out, 2, Len(tool_in) + 1) = tool_in
    /\ out[Len(tool_in) + 2] = "' found. Available products: "
    /\ \A i \in 1..Len(PRODUCTS) : Occurs(PRODUCTS[i].key, out)

\* C10: get_product_info returns the not-found message, listing every catalog
\* key, exactly when the normalized input equals no key, lies in no key and
\* contains no key; otherwise it returns a catalog description.
C10_NotFoundExactlyWhenNoMatch ==
    tool_fn = "get_product_info" =>
        IF \A i \in 1..Len(PRODUCTS) :
              /\ NormalizedInput # PRODUCTS[i].key
              /\ ~Occurs(NormalizedInput, PRODUCTS[i].key)
              /\ ~Occurs(PRODUCTS[i].key, NormalizedInput)
        THEN IsNotFound(tool_out)
        ELSE /\ \E i \in 1..Len(PRODUCTS) : tool_out = <<PRODUCTS[i].description>>
             /\ ~IsNotFound(tool_out)

\* the not-found message for an input that had to be normalized
C10_Witness ==
    /\ tool_fn = "get_product_info"
    /\ IsNotFound(tool_out)
    /\ NormalizedInput # tool_in
    /\ NormalizedInput # <<>>

\* a Python str: a sequence of text atoms, and not the value None
IsString(v) == v # None /\ \A i \in 1..Len(v) : v[i] \in STRING

\* the fragments of the estimate that introduce a premium figure
PremiumMarkers == {"): $", " $", "(midpoint ~$"}

NormalizedSize == lower(strip(tool_in2))

RecognizedSize == NormalizedSize \in {SIZE_STARTUP, SIZE_MID_MARKET, SIZE_ENTERPRISE}

\* C11: a call of get_product_info, get_pricing_estimate or check_eligibility
\* with string arguments returns a string and raises nothing, and for a
\* company size that is not startup, mid-market or enterprise the result is
\* the 'Unknown company size' message without any premium figure.
C11_ToolsTotalOverStrings ==
    tool_fn # "none" =>
        /\ tool_error = "none"
        /\ IsString(tool_out)
        /\ (tool_fn = "get_pricing_estimate" /\ ~ RecognizedSize) =>
              /\ tool_out = <<"Unknown company size '">> \o tool_in2
                                \o <<"'. ", "Please use: startup, mid-market, or enterprise.">>
              /\ \A i \in 1..Len(tool_out) : tool_out[i] \notin PremiumMarkers

\* get_pricing_estimate has answered a call whose company size names no size
\* and whose coverage type names no product
C11_Witness ==
    /\ tool_fn = "get_pricing_estimate"
    /\ ~ RecognizedSize
    /\ tool_in2 # <<>>
    /\ ~ IsProductKey(NormalizedInput)
    /\ tool_error = "none"
    /\ tool_out[1] = "Unknown company size '"

\* the position of the first occurrence of a fragment in a result
Position(out, atom) == CHOOSE i \in 1..Len(out) : out[i] = atom /\ \A j \in 1..(i - 1) : out[j] # atom

DigitValue(c) == (CHOOSE d \in 1..10 : Digits[d] = c) - 1

\* the number written from position i on, digits in groups separated by commas
RECURSIVE ReadNumber(_, _, _)
ReadNumber(out, i, acc) ==
    IF i > Len(out) THEN acc
    ELSE IF out[i] = "," THEN ReadNumber(out, i + 1, acc)
    ELSE IF \E d \in 1..10 : Digits[d] = out[i] THEN ReadNumber(out, i + 1, 10 * acc + DigitValue(out[i]))
    ELSE acc

\* the three figures of an estimate; the coverage type and the size are quoted
\* before them character by character, so the fragments are found unambiguously
ReportedLow == ReadNumber(tool_out, Position(tool_out, "): $") + 1, 0)
ReportedHigh == ReadNumber(tool_out, Position(tool_out, " $") + 1, 0)
ReportedMid == ReadNumber(tool_out, Position(tool_out, "(midpoint ~$") + 1, 0)

\* the table row of the normalized company size
BaseOfSize == BASE_PREMIUMS[CHOOSE i \in 1..Len(BASE_PREMIUMS) : BASE_PREMIUMS[i].size = NormalizedSize]

\* tenths of the multiplier the claim names: the table entry of the normalized
\* coverage type, 1.0 for any other coverage type
TenthsOfCoverage ==
    IF \E i \in 1..Len(COVERAGE_MULTIPLIERS) : COVERAGE_MULTIPLIERS[i].coverage = NormalizedInput
    THEN COVERAGE_MULTIPLIERS[CHOOSE i \in 1..Len(COVERAGE_MULTIPLIERS) :
                                  COVERAGE_MULTIPLIERS[i].coverage = NormalizedInput].tenths
    ELSE 10

\* C12: for a recognized company size the estimate reports low, mid and high
\* equal to the base premium of the size times the multiplier of the normalized
\* coverage type (1.0 for an unrecognized one), truncated to an integer; for
\* ("agentic ai liability insurance", "startup") these are 7000, 16800, 35000.
C12_PremiumsAreTruncatedProducts ==
    (tool_fn = "get_pricing_estimate" /\ RecognizedSize) =>
        /\ ReportedLow = (BaseOfSize.low * TenthsOfCoverage) \div 10
        /\ ReportedMid = (BaseOfSize.mid * TenthsOfCoverage) \div 10
        /\ ReportedHigh = (BaseOfSize.high * TenthsOfCoverage) \div 10
        /\ (tool_in = PRODUCTS[2].key /\ tool_in2 = SIZE_STARTUP) =>
              <<ReportedLow, ReportedMid, ReportedHigh>> = <<7000, 16800, 35000>>

\* the premiums the tool computes for the coverage type of this call and a size
PremiumsFor(size_key) == Premiums(tool_in, size_key)

\* C13: for the coverage type of the call, recognized or not, each of low, mid
\* and high does not decrease from startup to mid-market to enterprise, and
\* within each size low <= mid <= high; the figures the call reports are the
\* ones computed for its size.
C13_PremiumsMonotonic ==
    (tool_fn = "get_pricing_estimate" /\ RecognizedSize) =>
        LET s == PremiumsFor(SIZE_STARTUP)
            m == PremiumsFor(SIZE_MID_MARKET)
            e == PremiumsFor(SIZE_ENTERPRISE)
        IN  /\ s.low <= m.low /\ m.low <= e.low
            /\ s.mid <= m.mid /\ m.mid <= e.mid
            /\ s.high <= m.high /\ m.high <= e.high
            /\ \A x \in {s, m, e} : x.low <= x.mid /\ x.mid <= x.high
            /\ <<ReportedLow, ReportedMid, ReportedHigh>>
                   = <<PremiumsFor(NormalizedSize).low, PremiumsFor(NormalizedSize).mid,
                       PremiumsFor(NormalizedSize).high>>

\* an estimate for a recognized coverage type whose multiplier is not 1.0, at
\* the middle size
C13_Witness ==
    /\ tool_fn = "get_pricing_estimate"
    /\ NormalizedSize = SIZE_MID_MARKET
    /\ TenthsOfCoverage = 16
    /\ ReportedLow = 32000
    /\ ReportedHigh = 144000

(***************************************************************************)
(* Sentence chunking: chunk_by_sentences of rag_utils.py and of            *)
(* 5_RAG_App/app.py, and the same two lines inside build_rag_index of      *)
(* agent_app.py.                                                           *)
(***************************************************************************)
\* s.replace(old, new) for one-character old and new
Replace(s, old, new) == [i \in 1..Len(s) |-> IF s[i] = old THEN new ELSE s[i]]

\* s.split(sep) for a one-character sep: the pieces between the separators,
\* empty pieces included
RECURSIVE Split(_, _)
Split(s, sep) ==
    IF \A i \in 1..Len(s) : s[i] # sep THEN <<s>>
    ELSE LET i == CHOOSE k \in 1..Len(s) : s[k] = sep /\ \A j \in 1..(k - 1) : s[j] # sep
         IN  <<SubSeq(s, 1, i - 1)>> \o Split(SubSeq(s, i + 1, Len(s)), sep)

\* a comprehension that keeps every piece
KeepsAll(piece) == TRUE

\* the filter of the comprehension: `if s.strip()`
Keeps(piece) == strip(piece) # <<>>

chunk_by_sentences(d) ==
    LET pieces == Split(Replace(d, "\n", " "), ".")
        kept == SelectSeq(pieces, Keeps)
    IN  [i \in 1..Len(kept) |-> strip(kept[i]) \o <<".">>]

\* the text between two periods of a drawn document
Segments ==
    { <<>>, <<" ">>, <<"a">>, <<"\n", "b">>, <<"a", "\n", "b">>, <<" ", "b", " ">> }

\* the segments joined by periods
RECURSIVE JoinPeriods(_)
JoinPeriods(segs) ==
    IF segs = <<>> THEN <<>>
    ELSE IF Len(segs) = 1 THEN segs[1]
    ELSE segs[1] \o <<".">> \o JoinPeriods(Tail(segs))

\* documents: up to MaxSegments segments separated by periods, with or without
\* a final period
Docs ==
    { JoinPeriods(segs) \o tail :
        segs \in UNION {[1..n -> Segments] : n \in 0..MaxSegments},
        tail \in {<<>>, <<".">>} }

ChunkInit ==
    /\ pc = "idle"
    /\ messages = <<>>
    /\ trace = <<>>
    /\ iter = 0
    /\ max_iterations = 0
    /\ user_question = None
    /\ choice = NoChoice
    /\ pending = <<>>
    /\ answer = None
    /\ error = None
    /\ last_request = None
    /\ tool_fn = "none"
    /\ tool_in = <<>>
    /\ tool_in2 = <<>>
    /\ tool_order = <<>>
    /\ tool_out = None
    /\ tool_error = "none"
    /\ SearchIdle
    /\ ConcIdle
    /\ SeedIdle
    /\ OtherIdle
    /\ registry = all_functions
    /\ chunk_pc = "loaded"
    /\ doc \in Docs
    /\ chunks = <<>>

\* rag_utils.chunk_by_sentences(doc)
ChunkDemo ==
    /\ chunk_pc = "loaded"
    /\ chunk_pc' = "rag_utils"
    /\ chunks' = chunk_by_sentences(doc)
    /\ UNCHANGED doc
    /\ UNCHANGED chunk_frame

\* chunk_by_sentences(doc) of the RAG app
ChunkApp ==
    /\ chunk_pc = "loaded"
    /\ chunk_pc' = "rag_app"
    /\ chunks' = chunk_by_sentences(doc)
    /\ UNCHANGED doc
    /\ UNCHANGED chunk_frame

\* the chunking inside build_rag_index: the document is stripped when read
ChunkAgent ==
    /\ chunk_pc = "loaded"
    /\ chunk_pc' = "agent_app"
    /\ doc' = strip(doc)
    /\ chunks' = chunk_by_sentences(strip(doc))
    /\ UNCHANGED chunk_frame

ChunkNext == ChunkDemo \/ ChunkApp \/ ChunkAgent

ChunkSpec == ChunkInit /\ [][ChunkNext]_vars

\* the positions of the periods of the document
PeriodAt == {i \in 1..Len(doc) : doc[i] = "."}

\* the position of the k-th period, 0 for k = 0
NthPeriod(k) == IF k = 0 THEN 0 ELSE CHOOSE i \in PeriodAt : Cardinality({j \in PeriodAt : j <= i}) = k

\* the characters of a text that are not whitespace
NonBlank(s) == SelectSeq(s, LAMBDA c : c \notin Whitespace)

\* the k-th sentence: the text after the previous period up to and including
\* the k-th period
SentenceText(k) == SubSeq(doc, NthPeriod(k - 1) + 1, NthPeriod(k))

\* the document consists of period-terminated sentences: it has a period, only
\* whitespace follows the last one, and there is text before every period
IsSentences ==
    /\ PeriodAt # {}
    /\ \A i \in 1..Len(doc) : (\A j \in PeriodAt : j < i) => doc[i] \in Whitespace
    /\ \A k \in 1..Cardinality(PeriodAt) : NonBlank(SentenceText(k)) # <<".">>

\* C14: sentence chunking of a document of n period-terminated sentences gives
\* n chunks, the k-th chunk being the k-th sentence; for every document each
\* chunk ends with a period, has no newline and no other period, has no
\* leading whitespace and is not just ".".
C14_ChunksAreSentences ==
    chunk_pc \notin {"idle", "loaded"} =>
        /\ \A k \in 1..Len(chunks) :
              LET c == chunks[k]
              IN  /\ Len(c) >= 2
                  /\ c[Len(c)] = "."
                  /\ \A i \in 1..(Len(c) - 1) : c[i] # "."
                  /\ \A i \in 1..Len(c) : c[i] # "\n"
                  /\ c[1] \notin Whitespace
        /\ IsSentences =>
              /\ Len(chunks) = Cardinality(PeriodAt)
              /\ \A k \in 1..Len(chunks) : NonBlank(chunks[k]) = NonBlank(SentenceText(k))

\* three sentences, the second one broken over two lines, have become three chunks
C14_Witness ==
    /\ chunk_pc \notin {"idle", "loaded"}
    /\ IsSentences
    /\ Cardinality(PeriodAt) = 3
    /\ Len(chunks) = 3
    /\ \E i \in 1..Len(SentenceText(2)) : SentenceText(2)[i] = "\n"
    /\ chunks[1] # chunks[3]

(***************************************************************************)
(* Retrieval: search_products of 2_LLM_Demo_App/backend/search.py and of   *)
(* 2_LLM_Demo_App_v2/app/search.py, and search_docs of agent_app.py, over  *)
(* a vector collection.  An item of the collection carries its distance to *)
(* the query in thousandths and the price string of its metadata.          *)
(***************************************************************************)
\* a check that never finds the collection empty
CollectionIsEmptyNever(count) == FALSE

\* `count == 0`, the test before the query
CollectionIsEmpty(count) == count = 0

\* the first n elements of a sequence, all of them when it is shorter
Take(s, n) == SubSeq(s, 1, IF n < Len(s) THEN n ELSE Len(s))

\* The orders in which collection.query can deliver the items: ascending
\* distance, items at the same distance in insertion order or in its reverse.
Rankings(coll) ==
    LET ids == [i \in 1..Len(coll) |-> i]
    IN  { SortSeq(ids, LAMBDA a, b : coll[a].distance < coll[b].distance
                                      \/ (coll[a].distance = coll[b].distance /\ a < b)),
          SortSeq(ids, LAMBDA a, b : coll[a].distance < coll[b].distance
                                      \/ (coll[a].distance = coll[b].distance /\ a > b)) }

\* x / unit rounded to the nearest integer, a tie to the even one (round())
RoundHalfEven(x, unit) ==
    LET q == x \div unit
        r == x % unit
    IN  IF 2 * r > unit THEN q + 1
        ELSE IF 2 * r < unit THEN q
        ELSE IF q % 2 = 0 THEN q ELSE q + 1

\* round(1 - distance, 2), in hundredths
ScoreBackend(distance) == RoundHalfEven(1000 - distance, 10)

\* round(1 - distance, 4), in ten-thousandths
ScoreV2(distance) == (1000 - distance) * 10

\* the price strings found in the metadata: no price, a number, str(None)
PriceStrings == {"", "19.99", "None"}

\* float(s) raises ValueError
FloatRaises(s) == s \notin {"19.99"}

\* the price of a result in the backend: None for an empty string and for a
\* string that is not a number
PriceBackend(price_str) ==
    IF price_str # "" /\ ~ FloatRaises(price_str) THEN price_str ELSE "None"

\* the price of a result in v2: float(metadata["price"]) unless the string is empty
PriceV2(price_str) == IF price_str # "" THEN price_str ELSE "None"

\* the document stored under an id of the agent's collection
DocumentOf(id) == <<"chunk", id>>

\* the kinds of item a drawn collection is made of
ItemKinds ==
    { [distance |-> 0,    price |-> "19.99"],
      [distance |-> 124,  price |-> ""],
      [distance |-> 124,  price |-> "19.99"],
      [distance |-> 125,  price |-> "19.99"],
      [distance |-> 1500, price |-> "None"] }

\* collections of up to MaxItems items of any kind, and longer ones, up to
\* MaxItems more than TOP_K, whose items lie at distinct distances
Collections ==
    UNION {[1..n -> ItemKinds] : n \in 0..MaxItems}
    \cup { [i \in 1..n |-> [distance |-> ((i * 7) % 11) * 100, price |-> ""]] :
              n \in (MaxItems + 1)..(TOP_K + MaxItems) }

SearchInit ==
    /\ AgentIdle
    /\ ToolIdle
    /\ ChunkIdle
    /\ ConcIdle
    /\ SeedIdle
    /\ OtherIdle
    /\ registry = all_functions
    /\ search_pc = "ready"
    /\ collection \in Collections
    /\ top_k \in 1..MaxK
    /\ ranked = <<>>
    /\ results = <<>>
    /\ docs_out = <<>>
    /\ queried = 0
    /\ search_error = "none"

\* backend search_products(query_embedding, top_k)
SearchBackend ==
    /\ search_pc = "ready"
    /\ search_pc' = "backend"
    /\ IF CollectionIsEmpty(Len(collection))
       THEN /\ results' = <<>>
            /\ UNCHANGED <<ranked, queried>>
       ELSE \E ranking \in Rankings(collection) :
              /\ ranked' = Take(ranking, top_k)
              /\ queried' = queried + 1
              /\ results' = [i \in 1..Len(ranked') |->
                               [id |-> ranked'[i],
                                score |-> ScoreBackend(collection[ranked'[i]].distance),
                                price |-> PriceBackend(collection[ranked'[i]].price)]]
    /\ UNCHANGED <<collection, top_k, docs_out, search_error>>
    /\ UNCHANGED search_frame

\* v2 search_products(query, top_k)
SearchV2 ==
    /\ search_pc = "ready"
    /\ search_pc' = "v2"
    /\ IF CollectionIsEmpty(Len(collection))
       THEN /\ results' = <<>>
            /\ UNCHANGED <<ranked, queried, search_error>>
       ELSE \E ranking \in Rankings(collection) :
              /\ ranked' = Take(ranking, top_k)
              /\ queried' = queried + 1
              /\ IF \E i \in 1..Len(ranked') :
                       LET price_str == collection[ranked'[i]].price
                       IN  price_str # "" /\ FloatRaises(price_str)
                 THEN /\ search_error' = "ValueError"
                      /\ results' = <<>>
                 ELSE /\ search_error' = "none"
                      /\ results' = [i \in 1..Len(ranked') |->
                                       [id |-> ranked'[i],
                                        score |-> ScoreV2(collection[ranked'[i]].distance),
                                        price |-> PriceV2(collection[ranked'[i]].price)]]
    /\ UNCHANGED <<collection, top_k, docs_out>>
    /\ UNCHANGED search_frame

\* search_docs(query) of the agent: the collection was built from the chunks
\* of the company document and holds at least one; the limit is TOP_K
SearchDocs ==
    /\ search_pc = "ready"
    /\ Len(collection) >= 1
    /\ search_pc' = "agent"
    /\ \E ranking \in Rankings(collection) :
          /\ ranked' = Take(ranking, TOP_K)
          /\ queried' = queried + 1
          /\ docs_out' = search_docs([i \in 1..Len(ranked') |-> DocumentOf(ranked'[i])])
    /\ UNCHANGED <<collection, top_k, results, search_error>>
    /\ UNCHANGED search_frame

SearchNext == SearchBackend \/ SearchV2 \/ SearchDocs

SearchSpec == SearchInit /\ [][SearchNext]_vars

\* the limit of the search that ran
LimitK == IF search_pc = "agent" THEN TOP_K ELSE top_k

\* the ids of the returned items, in the order returned
ReturnedIds ==
    IF search_pc = "agent"
    THEN [i \in 1..((Len(docs_out) + 1) \div 2) |-> docs_out[2 * i - 1][2]]
    ELSE [i \in 1..Len(results) |-> results[i].id]

\* C15: a search that returns gives at most K items, in the order in which
\* the collection delivered them, which is by ascending distance, so that the
\* rounded scores 1 - distance do not increase; on a collection without
\* items it returns the empty list and the collection is not queried.
C15_RetrievalBoundedAndRanked ==
    (search_pc \in {"backend", "v2", "agent"} /\ search_error = "none") =>
        /\ Len(ReturnedIds) <= LimitK
        /\ Len(collection) > 0 => ReturnedIds = ranked
        /\ \A i \in 1..(Len(ReturnedIds) - 1) :
              collection[ReturnedIds[i]].distance <= collection[ReturnedIds[i + 1]].distance
        /\ \A i \in 1..(Len(results) - 1) : results[i].score >= results[i + 1].score
        /\ Len(collection) = 0 => (results = <<>> /\ queried = 0)

\* a product search has cut a collection of more items than the limit down to
\* the limit, two of the returned items having the same rounded score
C15_Witness ==
    /\ search_pc = "backend"
    /\ Len(collection) > top_k
    /\ Len(results) = top_k
    /\ queried = 1
    /\ \E i \in 1..(Len(results) - 1) :
          /\ results[i].score = results[i + 1].score
          /\ collection[results[i].id].distance < collection[results[i + 1].id].distance

(***************************************************************************)
(* The conversation of one invocation.                                     *)
(***************************************************************************)
\* the conversation run_agent starts from
SeedConversation ==
    << [role |-> "system", content |-> SYSTEM_PROMPT],
       [role |-> "user", content |-> user_question] >>

\* C16: the conversation begins as [system prompt, user question]; every step
\* leaves the messages it already holds in place and unchanged and can only
\* add messages at the end; a model call sends the whole conversation
\* accumulated up to the call.
C16_ConversationAppendOnly ==
    /\ [](iter = 0 => messages = SeedConversation)
    /\ [][/\ Len(messages') >= Len(messages)
          /\ SubSeq(messages', 1, Len(messages)) = messages
          /\ iter' = iter + 1 => last_request'.messages = messages]_vars

\* the second model call of an invocation has received the seed, the first
\* response and the results of the tools it asked for
C16_Witness ==
    /\ iter = 2
    /\ pc = "done"
    /\ Len(trace) >= 2
    /\ Len(last_request.messages) = Len(messages) - 1
    /\ Len(messages) >= 6

(***************************************************************************)
(* Failure of the chat-completion call.                                    *)
(***************************************************************************)
\* C17: when the chat-completion call fails, at whichever iteration, the
\* exception leaves run_agent: the invocation takes no further step (no
\* retry of the call, no other model call, no tool dispatch), and it returns
\* nothing, neither a final answer nor the sentinel; the failing call leaves
\* the conversation and the trace as they were.
C17_ModelFailurePropagates ==
    /\ [](error = "APIError" => (pc = "raised" /\ answer = None))
    /\ [][error # "APIError"]_vars
    /\ [][error' = "APIError" =>
            /\ pc = "awaiting_model_turn"
            /\ iter' = iter + 1
            /\ messages' = messages
            /\ trace' = trace]_vars

\* the second model call of an invocation has failed, after the tools of the
\* first response were dispatched
C17_Witness ==
    /\ pc = "raised"
    /\ error = "APIError"
    /\ iter = 2
    /\ Len(trace) >= 1
    /\ answer = None

(***************************************************************************)
(* The tool registry and the schemas sent to the model.                    *)
(***************************************************************************)
\* the tool names of the schema list, in list order
SchemaNames == [i \in 1..Len(all_schemas) |-> all_schemas[i].name]

\* the elements of a list, as a set
Elements(xs) == {xs[i] : i \in 1..Len(xs)}

\* C19: the schema list names four distinct tools, the three catalog tools and
\* search_docs; these names are exactly the keys of the registry; each
\* schema requires exactly the parameters of the function bound to its name;
\* and no step of the agent, a dispatch in particular, changes the registry.
C19_RegistryFixedAndConsistent ==
    /\ [](/\ \A i, j \in 1..Len(SchemaNames) : SchemaNames[i] = SchemaNames[j] => i = j
          /\ Elements(SchemaNames)
                = {"get_product_info", "get_pricing_estimate", "check_eligibility", "search_docs"}
          /\ Elements(SchemaNames) = DOMAIN registry
          /\ \A i \in 1..Len(all_schemas) :
                Elements(all_schemas[i].required) = Parameters(registry[all_schemas[i].name]))
    /\ [][registry' = registry]_vars

\* tools, search_docs among them, have been dispatched through the registry
C19_Witness ==
    /\ pc = "done"
    /\ Len(trace) >= 2
    /\ \E i \in 1..Len(trace) : trace[i].tool = "search_docs"
    /\ DOMAIN registry = Elements(SchemaNames)

(***************************************************************************)
(* Two run_agent invocations in one process, interleaved.  One of them     *)
(* occupies the variables of run_agent, the locals of the other are parked *)
(* until the scheduler resumes it.                                         *)
(***************************************************************************)
\* the locals of the invocation that is running
Locals ==
    [pc |-> pc, messages |-> messages, trace |-> trace, iter |-> iter,
     max_iterations |-> max_iterations, user_question |-> user_question, choice |-> choice,
     pending |-> pending, answer |-> answer, error |-> error, last_request |-> last_request]

\* the locals of an invocation at the top of its loop
InitialLocals(question, max) ==
    [pc |-> IF LoopContinues(0, max) THEN "awaiting_model_turn" ELSE "exhausted",
     messages |-> << [role |-> "system", content |-> SYSTEM_PROMPT],
                     [role |-> "user", content |-> question] >>,
     trace |-> <<>>, iter |-> 0, max_iterations |-> max, user_question |-> question,
     choice |-> NoChoice, pending |-> <<>>,
     answer |-> IF LoopContinues(0, max) THEN None ELSE Sentinel(max),
     error |-> None, last_request |-> None]

\* a trace list that belongs to the module and not to the invocation
SharedTraceOnResume(saved, current) == current

\* the trace an invocation finds when it is resumed: `trace = []` is a local
\* of run_agent, so it is the list the invocation itself has built
TraceOnResume(saved, current) == saved

ConcInit ==
    /\ \E question \in Questions, max \in 0..MaxConcIter :
          LET l == InitialLocals(question, max)
          IN  /\ pc = l.pc
              /\ messages = l.messages
              /\ trace = l.trace
              /\ iter = l.iter
              /\ max_iterations = l.max_iterations
              /\ user_question = l.user_question
              /\ choice = l.choice
              /\ pending = l.pending
              /\ answer = l.answer
              /\ error = l.error
              /\ last_request = l.last_request
    /\ parked \in {InitialLocals(question, max) :
                      question \in Questions \ {user_question}, max \in 0..MaxConcIter}
    /\ ToolIdle
    /\ ChunkIdle
    /\ SearchIdle
    /\ SeedIdle
    /\ OtherIdle
    /\ registry = all_functions

\* The running invocation is suspended at a call boundary and the other one
\* is resumed.
Switch ==
    /\ parked.pc \in {"awaiting_model_turn", "dispatching_tools"}
    /\ parked' = Locals
    /\ pc' = parked.pc
    /\ messages' = parked.messages
    /\ trace' = TraceOnResume(parked.trace, trace)
    /\ iter' = parked.iter
    /\ max_iterations' = parked.max_iterations
    /\ user_question' = parked.user_question
    /\ choice' = parked.choice
    /\ pending' = parked.pending
    /\ answer' = parked.answer
    /\ error' = parked.error
    /\ last_request' = parked.last_request
    /\ UNCHANGED <<tool_vars, chunk_vars, search_vars, seed_vars, shared_vars, other_vars>>

ConcNext == ModelTurn \/ ModelCallFails \/ Dispatch \/ Switch

ConcSpec == ConcInit /\ [][ConcNext]_vars

\* the assistant messages of a conversation
AssistantMessages(msgs) == SelectSeq(msgs, LAMBDA msg : msg.role = "assistant")

\* The locals s of an invocation hold what that invocation alone produces
\* from the model responses it received: its own seed, then for each response
\* the tool messages of the calls it asked for, a trace that records exactly
\* these calls, and a returned value taken from its own last response or the
\* sentinel of its own cap.
OwnProducts(s) ==
    LET req == RequestedCalls(s.messages)
        res == ToolMessages(s.messages)
    IN  /\ Len(s.messages) >= 2
        /\ s.messages[1] = [role |-> "system", content |-> SYSTEM_PROMPT]
        /\ s.messages[2] = [role |-> "user", content |-> s.user_question]
        /\ Len(AssistantMessages(s.messages)) = (IF s.error = "APIError" THEN s.iter - 1 ELSE s.iter)
        /\ Len(s.messages) = 2 + Len(AssistantMessages(s.messages)) + Len(res)
        /\ Len(res) <= Len(req)
        /\ Len(s.trace) = Len(res)
        /\ \A i \in 1..Len(s.trace) :
              /\ s.trace[i] = [tool |-> req[i].name, args |-> req[i].arguments.value,
                               result |-> res[i].content]
              /\ res[i].tool_call_id = req[i].id
        /\ s.pc = "done" =>
              /\ s.messages[Len(s.messages)] = s.choice.message
              /\ s.answer = s.choice.message.content
              /\ Len(res) = Len(req)
        /\ s.pc = "exhausted" =>
              /\ s.answer = Sentinel(s.max_iterations)
              /\ Len(res) = Len(req)

\* C18: with two invocations interleaved at their call boundaries, each one's
\* conversation and trace hold only what that invocation produced, each one
\* returns what its own model responses determine, and the registry they
\* share is never written.
C18_InvocationsIsolated ==
    /\ [](OwnProducts(Locals) /\ OwnProducts(parked) /\ registry = all_functions)
    /\ [][registry' = registry]_vars

\* both invocations are in the middle of dispatching the tools of a response,
\* each with a record of its own in its trace
C18_Witness ==
    /\ pc = "dispatching_tools"
    /\ parked.pc = "dispatching_tools"
    /\ Len(trace) >= 1
    /\ Len(parked.trace) >= 1
    /\ trace # parked.trace
    /\ user_question # parked.user_question

(***************************************************************************)
(* Seeding: seed_database of backend/seed.py and of backend/api.py, and    *)
(* the route seed with seed_products of the v2 app.  A product of the seed *)
(* list is described by what creating it does.                             *)
(***************************************************************************)
\* "ok": the product is created; "missing_key": the entry lacks a required
\* key and the subscript raises KeyError; "create_fails": the embedding or
\* the insertion raises
ProductKinds == {"ok", "missing_key", "create_fails"}

\* the seed lists the data file may hold
SeedLists == UNION {[1..n -> ProductKinds] : n \in 0..MaxProducts}

\* a loop that ends at the first failure
AfterFailureStop(i, n) == n + 1

\* the index the loop goes on with after the product at index i of n has
\* failed: the except clause counts the error and the for loop continues
AfterFailure(i, n) == i + 1

SeedInit ==
    /\ AgentIdle
    /\ ToolIdle
    /\ ChunkIdle
    /\ SearchIdle
    /\ ConcIdle
    /\ OtherIdle
    /\ registry = all_functions
    /\ seed_pc = "start"
    /\ seed_variant = "none"
    /\ file_exists \in BOOLEAN
    /\ seed_list \in SeedLists
    /\ file_exists \/ seed_list = <<>>
    /\ seed_idx = 0
    /\ created = 0
    /\ errors = 0
    /\ processed = <<>>

\* created = 0; errors = 0 and the entry into the for loop
EnterLoop ==
    /\ created' = 0
    /\ errors' = 0
    /\ seed_idx' = 1
    /\ seed_pc' = IF seed_list = <<>> THEN "returned" ELSE "looping"
    /\ UNCHANGED processed

\* seed.py: seed_database() up to the for loop
SeedScript ==
    /\ seed_pc = "start"
    /\ seed_variant' = "seed.py"
    /\ IF ~ file_exists
       THEN /\ seed_pc' = "returned"
            /\ created' = 0
            /\ errors' = 1
            /\ UNCHANGED <<seed_idx, processed>>
       ELSE EnterLoop
    /\ UNCHANGED <<file_exists, seed_list>>
    /\ UNCHANGED seed_frame

\* api.py: the route /admin/seed up to the for loop
SeedApi ==
    /\ seed_pc = "start"
    /\ seed_variant' = "api.py"
    /\ IF ~ file_exists
       THEN /\ seed_pc' = "raised"
            /\ UNCHANGED <<seed_idx, created, errors, processed>>
       ELSE EnterLoop
    /\ UNCHANGED <<file_exists, seed_list>>
    /\ UNCHANGED seed_frame

\* v2: the route /seed and seed_products(products) up to the for loop
SeedV2 ==
    /\ seed_pc = "start"
    /\ seed_variant' = "v2"
    /\ IF ~ file_exists
       THEN /\ seed_pc' = "raised"
            /\ UNCHANGED <<seed_idx, created, errors, processed>>
       ELSE EnterLoop
    /\ UNCHANGED <<file_exists, seed_list>>
    /\ UNCHANGED seed_frame

\* one pass of the for loop: the try statement around the creation of the
\* product at seed_idx, and the return after the last product
SeedStep ==
    /\ seed_pc = "looping"
    /\ processed' = Append(processed, seed_idx)
    /\ IF seed_list[seed_idx] = "ok"
       THEN /\ created' = created + 1
            /\ errors' = errors
            /\ seed_idx' = seed_idx + 1
       ELSE /\ errors' = errors + 1
            /\ created' = created
            /\ seed_idx' = AfterFailure(seed_idx, Len(seed_list))
    /\ seed_pc' = IF seed_idx' > Len(seed_list) THEN "returned" ELSE "looping"
    /\ UNCHANGED <<seed_variant, file_exists, seed_list>>
    /\ UNCHANGED seed_frame

SeedNext == SeedScript \/ SeedApi \/ SeedV2 \/ SeedStep

SeedSpec == SeedInit /\ [][SeedNext]_vars

\* the indices of the seed list, in list order
ListOrder == [i \in 1..Len(seed_list) |-> i]

\* the number of products of the list of a given kind of outcome
CountOk == Cardinality({i \in 1..Len(seed_list) : seed_list[i] = "ok"})
CountFailing == Cardinality({i \in 1..Len(seed_list) : seed_list[i] # "ok"})

\* every product was processed once, in list order, and counted
EveryProductCounted ==
    /\ processed = ListOrder
    /\ created = CountOk
    /\ errors = CountFailing
    /\ created + errors = Len(seed_list)

app_frame == <<agent_vars, tool_vars, chunk_vars, search_vars, conc_vars, seed_vars,
               shared_vars, sim_vars, tok_vars>>

\* the texts a markdown file of the data directory holds
FileTexts == { <<>>, <<"a", ".">>, <<" ", "b", ".", "a", "\n">> }

\* the sorted .md files of the data directory, as their texts
FileLists == UNION {[1..n -> FileTexts] : n \in 0..MaxFiles}

\* what the user typed into the question field
AppQuestions == { <<>>, <<" ">>, <<"q">> }

\* sep.join(parts) for texts of characters
RECURSIVE JoinTexts(_, _)
JoinTexts(parts, sep) ==
    IF parts = <<>> THEN <<>>
    ELSE IF Len(parts) = 1 THEN parts[1]
    ELSE parts[1] \o sep \o JoinTexts(Tail(parts), sep)

\* the strip() of every file text
RECURSIVE StripAll(_)
StripAll(parts) ==
    IF parts = <<>> THEN <<>> ELSE <<strip(Head(parts))>> \o StripAll(Tail(parts))

\* DATA_PATH.read_text() of build_rag_index raises FileNotFoundError without
\* the file; the data directory of the agent app holds this one document
AgentSourceMissing(dir, files) == ~ dir \/ files = <<>>

\* load_documents raises FileNotFoundError without the data directory and
\* without any .md file in it
RagSourceMissing(dir, files) == ~ dir \/ files = <<>>

\* load_document raises FileNotFoundError when the path does not exist
DemoSourceMissing(dir, files) == ~ dir \/ files = <<>>

\* load_documents: the stripped texts joined by a rule
load_documents(files) ==
    JoinTexts(StripAll(files), <<"\n", "\n", "-", "-", "-", "\n", "\n">>)

AppInit ==
    /\ AgentIdle
    /\ ToolIdle
    /\ ChunkIdle
    /\ SearchIdle
    /\ ConcIdle
    /\ SeedIdle
    /\ SimIdle
    /\ TokIdle
    /\ registry = all_functions
    /\ app \in {"agent_app", "rag_app", "rag_demo"}
    /\ app_pc = "start"
    /\ data_dir \in BOOLEAN
    /\ md_files \in FileLists
    /\ data_dir \/ md_files = <<>>
    /\ app = "rag_app" \/ Len(md_files) <= 1
    /\ cached = FALSE
    /\ index_chunks = <<>>
    /\ embed_calls = 0
    /\ collections_created = 0
    /\ query_calls = 0
    /\ agent_runs = 0
    /\ reruns = 0
    /\ app_error = "none"

\* a main() that shows the error and goes on to the question field
AfterFileNotFoundContinue == "built"

\* where main() is after build_rag_index / build_index raised
\* FileNotFoundError: the except clause shows the error and returns
AfterFileNotFound == "failed"

\* The start of main() of the agent app up to the question field: the cached
\* build_rag_index() inside try/except FileNotFoundError.  OpenAI() only
\* constructs the client of a configured process and makes no call.  The
\* embedding call may fail; no except clause catches that.
BuildRagIndexOfAgent ==
    /\ app = "agent_app"
    /\ app_pc = "start"
    /\ IF cached
       THEN /\ app_pc' = "built"
            /\ UNCHANGED <<index_chunks, embed_calls, collections_created, cached, app_error>>
       ELSE IF AgentSourceMissing(data_dir, md_files)
       THEN /\ app_pc' = AfterFileNotFound
            /\ app_error' = "FileNotFoundError"
            /\ UNCHANGED <<index_chunks, embed_calls, collections_created, cached>>
       ELSE \E embedded \in BOOLEAN :
            /\ embed_calls' = embed_calls + 1
            /\ IF embedded
               THEN /\ collections_created' = collections_created + 1
                    /\ index_chunks' = chunk_by_sentences(strip(md_files[1]))
                    /\ cached' = TRUE
                    /\ app_pc' = "built"
                    /\ app_error' = "none"
               ELSE /\ app_pc' = "raised"
                    /\ app_error' = "APIError"
                    /\ UNCHANGED <<index_chunks, collections_created, cached>>
    /\ UNCHANGED <<app, data_dir, md_files, query_calls, agent_runs, reruns>>
    /\ UNCHANGED app_frame

\* The start of main() of the RAG app up to the question field: the cached
\* build_index() inside try/except FileNotFoundError.
BuildIndexOfRagApp ==
    /\ app = "rag_app"
    /\ app_pc = "start"
    /\ IF cached
       THEN /\ app_pc' = "built"
            /\ UNCHANGED <<index_chunks, embed_calls, collections_created, cached, app_error>>
       ELSE IF RagSourceMissing(data_dir, md_files)
       THEN /\ app_pc' = AfterFileNotFound
            /\ app_error' = "FileNotFoundError"
            /\ UNCHANGED <<index_chunks, embed_calls, collections_created, cached>>
       ELSE \E embedded \in BOOLEAN :
            /\ embed_calls' = embed_calls + 1
            /\ IF embedded
               THEN /\ collections_created' = collections_created + 1
                    /\ index_chunks' = chunk_by_sentences(load_documents(md_files))
                    /\ cached' = TRUE
                    /\ app_pc' = "built"
                    /\ app_error' = "none"
               ELSE /\ app_pc' = "raised"
                    /\ app_error' = "APIError"
                    /\ UNCHANGED <<index_chunks, collections_created, cached>>
    /\ UNCHANGED <<app, data_dir, md_files, query_calls, agent_runs, reruns>>
    /\ UNCHANGED app_frame

\* rag_utils.load_document(): raises without the file, else returns its
\* stripped text, which the demo then chunks
LoadDocument ==
    /\ app = "rag_demo"
    /\ app_pc = "start"
    /\ IF DemoSourceMissing(data_dir, md_files)
       THEN /\ app_pc' = "raised"
            /\ app_error' = "FileNotFoundError"
            /\ UNCHANGED index_chunks
       ELSE /\ app_pc' = "loaded"
            /\ index_chunks' = chunk_by_sentences(strip(md_files[1]))
            /\ UNCHANGED app_error
    /\ UNCHANGED <<app, data_dir, md_files, cached, embed_calls, collections_created,
                   query_calls, agent_runs, reruns>>
    /\ UNCHANGED app_frame

\* main() returns without asking: the question is blank or the button was
\* not pressed
NoQuestion ==
    /\ app \in {"agent_app", "rag_app"}
    /\ app_pc = "built"
    /\ \E question \in AppQuestions, button \in BOOLEAN :
          strip(question) = <<>> \/ ~ button
    /\ app_pc' = "returned"
    /\ UNCHANGED <<app, data_dir, md_files, cached, index_chunks, embed_calls,
                   collections_created, query_calls, agent_runs, reruns, app_error>>
    /\ UNCHANGED app_frame

\* The RAG app answers a question: embeds it, queries the collection and
\* asks the chat model.  Either call of the client may fail.
AskRagApp ==
    /\ app = "rag_app"
    /\ app_pc = "built"
    /\ \E question \in AppQuestions, embedded \in BOOLEAN, completed \in BOOLEAN :
          /\ strip(question) # <<>>
          /\ embed_calls' = embed_calls + 1
          /\ query_calls' = IF embedded THEN query_calls + 1 ELSE query_calls
          /\ app_pc' = IF embedded /\ completed THEN "answered" ELSE "raised"
          /\ app_error' = IF embedded /\ completed THEN "none" ELSE "APIError"
    /\ UNCHANGED <<app, data_dir, md_files, cached, index_chunks, collections_created,
                   agent_runs, reruns>>
    /\ UNCHANGED app_frame

\* The agent app calls run_agent for a question.
AskAgentApp ==
    /\ app = "agent_app"
    /\ app_pc = "built"
    /\ \E question \in AppQuestions : strip(question) # <<>>
    /\ agent_runs' = agent_runs + 1
    /\ app_pc' = "agent_running"
    /\ UNCHANGED <<app, data_dir, md_files, cached, index_chunks, embed_calls,
                   collections_created, query_calls, reruns, app_error>>
    /\ UNCHANGED app_frame

\* A search_docs call of the running agent: one embedding call and, when it
\* succeeds, one query of the collection.
AgentSearchesDocs ==
    /\ app_pc = "agent_running"
    /\ query_calls < MaxQueries
    /\ \E embedded \in BOOLEAN :
          /\ embed_calls' = embed_calls + 1
          /\ query_calls' = IF embedded THEN query_calls + 1 ELSE query_calls
          /\ app_pc' = IF embedded THEN "agent_running" ELSE "raised"
          /\ app_error' = IF embedded THEN "none" ELSE "APIError"
    /\ UNCHANGED <<app, data_dir, md_files, cached, index_chunks, collections_created,
                   agent_runs, reruns>>
    /\ UNCHANGED app_frame

\* run_agent returns or raises; main() shows the answer or the exception
AgentRunEnds ==
    /\ app_pc = "agent_running"
    /\ \E raised \in BOOLEAN :
          /\ app_pc' = IF raised THEN "raised" ELSE "answered"
          /\ app_error' = IF raised THEN "Exception" ELSE "none"
    /\ UNCHANGED <<app, data_dir, md_files, cached, index_chunks, embed_calls,
                   collections_created, query_calls, agent_runs, reruns>>
    /\ UNCHANGED app_frame

\* Streamlit runs main() again on the next interaction of the session; what
\* st.cache_resource holds stays.
Rerun ==
    /\ app \in {"agent_app", "rag_app"}
    /\ app_pc \in {"failed", "returned", "answered", "raised"}
    /\ reruns < MaxReruns
    /\ reruns' = reruns + 1
    /\ app_pc' = "start"
    /\ UNCHANGED <<app, data_dir, md_files, cached, index_chunks, embed_calls,
                   collections_created, query_calls, agent_runs, app_error>>
    /\ UNCHANGED app_frame

AppNext ==
    \/ BuildRagIndexOfAgent
    \/ BuildIndexOfRagApp
    \/ LoadDocument
    \/ NoQuestion
    \/ AskRagApp
    \/ AskAgentApp
    \/ AgentSearchesDocs
    \/ AgentRunEnds
    \/ Rerun

AppSpec == AppInit /\ [][AppNext]_vars

\* the source the application indexes is not there
SourceMissing ==
    \/ app = "agent_app" /\ AgentSourceMissing(data_dir, md_files)
    \/ app = "rag_app" /\ RagSourceMissing(data_dir, md_files)
    \/ app = "rag_demo" /\ DemoSourceMissing(data_dir, md_files)

sim_frame == <<agent_vars, tool_vars, chunk_vars, search_vars, conc_vars, seed_vars,
               shared_vars, app_vars, tok_vars>>

\* the texts of a request
SimTexts == { <<>>, <<"a">>, <<"b">> }

\* the list request.texts
TextLists == UNION {[1..n -> SimTexts] : n \in 0..MaxTexts}

SimInit ==
    /\ AgentIdle
    /\ ToolIdle
    /\ ChunkIdle
    /\ SearchIdle
    /\ ConcIdle
    /\ SeedIdle
    /\ AppIdle
    /\ TokIdle
    /\ registry = all_functions
    /\ sim_pc = "received"
    /\ texts \in TextLists
    /\ status_code = 0
    /\ detail = <<>>
    /\ encoded = 0
    /\ pairwise = <<>>

\* the message of the exception HTTPException(status_code=400, detail=...)
TooFewTexts == <<"At least 2 texts required">>

\* str(e) of an HTTPException: "<status>: <detail>" where the class defines
\* __str__, the empty string where it does not
HttpExceptionStr(status, message) == { <<status, ": ">> \o message, <<>> }

\* whether the except Exception clause of the handler catches an exception
\* raised inside its try block: HTTPException is a subclass of Exception
CaughtByOwnTry(raised) == raised \in {"HTTPException", "Exception"}

\* the pairs (i, j), i < j, in the order of the nested loops
RECURSIVE PairsFrom(_, _, _)
PairsFrom(i, j, n) ==
    IF i >= n THEN <<>>
    ELSE IF j > n THEN PairsFrom(i + 1, i + 2, n)
    ELSE <<[text1 |-> i, text2 |-> j]>> \o PairsFrom(i, j + 1, n)

\* debug_similarity(request): the whole handler.  encode() may fail for any
\* of the texts; the similarity values themselves are not modelled.
DebugSimilarity ==
    /\ sim_pc = "received"
    /\ sim_pc' = "responded"
    /\ IF Len(texts) < 2
       THEN /\ encoded' = 0
            /\ pairwise' = <<>>
            /\ IF CaughtByOwnTry("HTTPException")
               THEN /\ status_code' = 500
                    /\ detail' \in HttpExceptionStr("400", TooFewTexts)
               ELSE /\ status_code' = 400
                    /\ detail' = TooFewTexts
       ELSE \E failing \in 0..Len(texts) :
            IF failing = 0
            THEN /\ encoded' = Len(texts)
                 /\ pairwise' = PairsFrom(1, 2, Len(texts))
                 /\ status_code' = 200
                 /\ detail' = <<>>
            ELSE /\ encoded' = failing
                 /\ pairwise' = <<>>
                 /\ status_code' = IF CaughtByOwnTry("Exception") THEN 500 ELSE 0
                 /\ detail' = <<"encode failed">>
    /\ UNCHANGED texts
    /\ UNCHANGED sim_frame

SimNext == DebugSimilarity

SimSpec == SimInit /\ [][SimNext]_vars

\* C22: a request with fewer than two texts is answered with status 400 and
\* the detail "At least 2 texts required", and no text of it is encoded; a
\* response with status 500 answers a request whose processing failed.
C22_TooFewTextsIsBadRequest ==
    sim_pc = "responded" =>
        /\ Len(texts) < 2 =>
              status_code = 400 /\ detail = TooFewTexts /\ encoded = 0
        /\ status_code = 500 => Len(texts) >= 2 /\ encoded >= 1

(***************************************************************************)
(* The conversation sent to the chat model.                                *)
(***************************************************************************)
\* the positions of the tool-result messages that answer the call id
ResultsOf(msgs, id) ==
    {k \in 1..Len(msgs) : msgs[k].role = "tool" /\ msgs[k].tool_call_id = id}

\* whether the assistant message at position j requested tool calls
RequestsTools(msgs, j) ==
    msgs[j].role = "assistant" /\ msgs[j].tool_calls # <<>>

\* Every tool-result message answers a call of an assistant message before it;
\* every call of an assistant message has exactly one result, and the results
\* stand directly after the message in the order of its calls.  In this model
\* the responses that carry tool calls are those with finish_reason
\* "tool_calls".
WellFormed(msgs) ==
    /\ \A k \in 1..Len(msgs) :
          msgs[k].role = "tool" =>
              \E j \in 1..(k - 1) :
                  /\ RequestsTools(msgs, j)
                  /\ \E i \in 1..Len(msgs[j].tool_calls) :
                        msgs[j].tool_calls[i].id = msgs[k].tool_call_id
    /\ \A j \in 1..Len(msgs) :
          RequestsTools(msgs, j) =>
              /\ j + Len(msgs[j].tool_calls) <= Len(msgs)
              /\ \A i \in 1..Len(msgs[j].tool_calls) :
                    /\ ResultsOf(msgs, msgs[j].tool_calls[i].id) = {j + i}
                    /\ msgs[j + i].role = "tool"

\* C23: the conversation of every model call is well-formed for the chat
\* API: each tool-result message follows an assistant message that requested
\* the call of its tool_call_id, each requested call has exactly one result,
\* and the results stand directly after the requesting message, in the order
\* of its requests.  This holds for the conversation the next call will send
\* and for the one the latest call has sent.
C23_ConversationWellFormed ==
    /\ pc = "awaiting_model_turn" => WellFormed(messages)
    /\ iter >= 1 => WellFormed(last_request.messages)
    /\ choice.message.tool_calls # <<>> <=> choice.finish_reason = "tool_calls"

\* the second model call has been sent the two results of the first response
C23_Witness ==
    /\ iter = 2
    /\ Len(ToolMessages(last_request.messages)) = 2
    /\ RequestsTools(last_request.messages, 3)
    /\ last_request.messages[5].tool_call_id = last_request.messages[3].tool_calls[2].id

(***************************************************************************)
(* The last permitted iteration.                                           *)
(***************************************************************************)
\* the tool calls of the latest response
LastCalls == choice.message.tool_calls

\* C24: run_agent is exhausted after exactly max_iterations model calls, none
\* for max_iterations = 0, where trace and conversation are as at the start.
\* The tool calls of the response of the last permitted iteration are
\* dispatched and stand in the trace and in the conversation, but no model
\* call has been sent their results: once the iterations are used up the loop
\* is never at a model turn again, and with no call pending it is exhausted.
C24_ExhaustionAfterLastDispatch ==
    /\ pc = "exhausted" => iter = max_iterations /\ error = None
    /\ max_iterations = 0 =>
          /\ pc = "exhausted"
          /\ iter = 0
          /\ trace = <<>>
          /\ messages = SeedConversation
          /\ last_request = None
    /\ pc = "awaiting_model_turn" => iter < max_iterations
    /\ (iter = max_iterations /\ pc = "dispatching_tools") => pending # <<>>
    /\ (pc = "exhausted" /\ choice.finish_reason = "tool_calls") =>
          LET n == Len(LastCalls)
              t == Len(trace) - n
              m == Len(messages) - n
          IN  /\ n >= 1 /\ t >= 0 /\ m >= 3
              /\ messages[m] = choice.message
              /\ last_request.messages = SubSeq(messages, 1, m - 1)
              /\ \A i \in 1..n :
                    /\ trace[t + i].tool = LastCalls[i].name
                    /\ messages[m + i].role = "tool"
                    /\ messages[m + i].tool_call_id = LastCalls[i].id
                    /\ messages[m + i].content = trace[t + i].result

\* exhausted after two iterations that both dispatched tools
C24_Witness ==
    /\ pc = "exhausted"
    /\ max_iterations = 2
    /\ choice.finish_reason = "tool_calls"
    /\ Len(LastCalls) = 2
    /\ Len(trace) >= 3
    /\ messages[Len(messages)].role = "tool"

(***************************************************************************)
(* Responses that neither stop nor request tools.                          *)
(***************************************************************************)
\* the step is a model call that returned a response that is neither final
\* nor a request for tools
OtherResponseStep ==
    /\ iter' = iter + 1
    /\ messages' # messages
    /\ choice'.finish_reason \notin {"stop", "tool_calls"}

\* C25: a response whose finish_reason is neither "stop" nor "tool_calls" is
\* appended to the conversation, no tool is dispatched and no record is added
\* to the trace, the iteration is used up, and run_agent goes on with the next
\* model call or, after the last iteration, is exhausted with the sentinel;
\* a returned answer is the content of a stop response or the sentinel, never
\* the content of such a response.
C25_OtherFinishReasonContinues ==
    /\ [][OtherResponseStep =>
            /\ pc = "awaiting_model_turn"
            /\ messages' = Append(messages, choice'.message)
            /\ trace' = trace
            /\ pending' = <<>>
            /\ pc' = IF iter + 1 < max_iterations THEN "awaiting_model_turn" ELSE "exhausted"
            /\ answer' = IF iter + 1 < max_iterations THEN None
                         ELSE Sentinel(max_iterations)
            /\ answer' # choice'.message.content
            /\ error' = error]_vars
    /\ [](pc = "done" => (choice.finish_reason = "stop" /\ answer = choice.message.content))
    /\ [](pc = "exhausted" => answer = Sentinel(max_iterations))
    /\ [](\A i \in 1..Len(messages) :
            (messages[i].role = "assistant" /\ messages[i].content = "It costs ab")
                => answer # messages[i].content)

\* a truncated response used up the first iteration and the model was called
\* again
C25_Witness ==
    /\ iter = 2
    /\ messages[3].role = "assistant"
    /\ messages[3].content = "It costs ab"
    /\ Len(messages) = 4
    /\ pc = "done"
    /\ trace = <<>>

(***************************************************************************)
(* Failure of a tool dispatch.                                             *)
(***************************************************************************)
\* the arguments of the call are no JSON text or do not fit the signature of
\* the function registered under its name
ArgumentsFail(tc) ==
    \/ tc.arguments.json # "object"
    \/ /\ tc.name \in DOMAIN registry
       /\ DOMAIN tc.arguments.value # Parameters(registry[tc.name])

\* run_agent has raised at a tool call
RaisedAtDispatch == pc = "raised" /\ error \in {"JSONDecodeError", "TypeError", "KeyError", "EmbeddingAPIError"}

\* C26: when json.loads fails for a tool call or the tool function raises
\* (wrong argument names, a failing call inside the tool), run_agent raises
\* at that call: the failing call gets no trace record and no tool-result
\* message, it and the calls after it in the same response stay undispatched,
\* the invocation takes no further step (no model call), and nothing is
\* returned, so the trace built up to the failure is lost to the caller.
C26_DispatchFailureRaises ==
    /\ [](LET req == RequestedCalls(messages)
          IN  \A k \in 1..Len(req) :
                ArgumentsFail(req[k]) =>
                    /\ Len(trace) < k
                    /\ Len(ToolMessages(messages)) < k
                    /\ pc \in {"dispatching_tools", "raised"}
                    /\ answer = None)
    /\ [](RaisedAtDispatch =>
            LET req == RequestedCalls(messages)
            IN  /\ pending # <<>>
                /\ pending = SubSeq(req, Len(trace) + 1, Len(req))
                /\ Len(ToolMessages(messages)) = Len(trace)
                /\ answer = None
                /\ \E env \in Environments(Head(pending).name) :
                      /\ DispatchOutcome(Head(pending), env).raised
                      /\ DispatchOutcome(Head(pending), env).error = error)
    /\ [][(pc = "dispatching_tools" /\ pc' = "raised") =>
            /\ messages' = messages
            /\ trace' = trace
            /\ pending' = pending
            /\ iter' = iter
            /\ answer' = None]_vars
    /\ [][pc # "raised"]_vars

\* the first of two calls of the second response has malformed arguments
C26_Witness ==
    /\ pc = "raised"
    /\ error = "JSONDecodeError"
    /\ iter = 2
    /\ Len(trace) >= 1
    /\ Len(pending) = 2
    /\ Len(ToolMessages(messages)) = Len(trace)


(***************************************************************************)
(* Order of the matches of get_product_info.                               *)
(***************************************************************************)
\* the catalog entries whose key equals the normalized input
KeysEqualInput == {i \in 1..Len(PRODUCTS) : PRODUCTS[i].key = NormalizedInput}

\* the catalog entries whose key contains the normalized input or lies in it
KeysMatchingInput ==
    {i \in 1..Len(PRODUCTS) :
        Occurs(NormalizedInput, PRODUCTS[i].key) \/ Occurs(PRODUCTS[i].key, NormalizedInput)}

\* the first of a set of catalog entries in declaration order
FirstOf(entries) == CHOOSE i \in entries : \A j \in entries : i <= j

\* C27: get_product_info returns the description of the key the normalized
\* input equals, whatever other keys contain it or lie in it; for an input
\* that equals no key and matches one or several keys by containment it
\* returns the description of the first matching key of the declaration
\* order; the result is that of the normalized input, whatever the padding
\* and the capitalisation of the argument.
C27_ExactThenFirstMatch ==
    tool_fn = "get_product_info" =>
        /\ KeysEqualInput # {} =>
              /\ Cardinality(KeysEqualInput) = 1
              /\ tool_out = <<PRODUCTS[FirstOf(KeysEqualInput)].description>>
        /\ (KeysEqualInput = {} /\ KeysMatchingInput # {}) =>
              tool_out = <<PRODUCTS[FirstOf(KeysMatchingInput)].description>>
        /\ KeysMatchingInput # {} => tool_out = get_product_info(NormalizedInput)

\* "insurance", padded, lies in three keys and gets the description of the
\* first of them
C27_Witness ==
    /\ tool_fn = "get_product_info"
    /\ NormalizedInput = <<"i","n","s","u","r","a","n","c","e">>
    /\ NormalizedInput # tool_in
    /\ KeysEqualInput = {}
    /\ KeysMatchingInput = {2, 5, 7}
    /\ tool_out = <<PRODUCTS[2].description>>

(***************************************************************************)
(* Empty and whitespace-only arguments.                                    *)
(***************************************************************************)
\* C28: for an argument that is empty or consists of whitespace only,
\* get_product_info returns the description of the first catalog entry and
\* not the not-found message, and check_eligibility returns the affirmative
\* message in every iteration order of the set: the empty string occurs in
\* every catalog key and in every eligible phrase.
C28_EmptyArgumentMatchesFirst ==
    (tool_fn # "none" /\ NormalizedInput = <<>>) =>
        /\ tool_fn = "get_product_info" =>
              /\ tool_out = <<PRODUCTS[1].description>>
              /\ ~ IsNotFound(tool_out)
        /\ tool_fn = "check_eligibility" =>
              /\ IsAffirmative(tool_out)
              /\ ~ IsNotListed(tool_out)
        /\ \A p \in Phrases : Occurs(NormalizedInput, p)

\* a whitespace-only industry, checked in an order other than the declared one
C28_Witness ==
    /\ tool_fn = "check_eligibility"
    /\ tool_in # <<>>
    /\ NormalizedInput = <<>>
    /\ tool_order # ELIGIBLE_DECLARED
    /\ IsAffirmative(tool_out)

(***************************************************************************)
(* Resolution of the coverage type by get_pricing_estimate.                *)
(***************************************************************************)
\* the coverage types that have a multiplier
MultiplierKeys == {COVERAGE_MULTIPLIERS[i].coverage : i \in 1..Len(COVERAGE_MULTIPLIERS)}

\* the call returned an estimate
IsEstimate(out) ==
    /\ out # None
    /\ out[1] = "Estimated annual premium for '"
    /\ \A mk \in PremiumMarkers : \E i \in 1..Len(out) : out[i] = mk

\* the reported figures are the base premiums of the size, unchanged
PricedAtBase ==
    <<ReportedLow, ReportedMid, ReportedHigh>> = <<BaseOfSize.low, BaseOfSize.mid, BaseOfSize.high>>

\* C29: with a recognized company size get_pricing_estimate returns an
\* estimate for every coverage name, in the catalog or not.  The multiplier
\* is that of the key the stripped lowercased coverage type equals; a
\* coverage type that equals none of these keys, be it a partial name that
\* get_product_info resolves to a product or a catalog product without a
\* multiplier, is priced at the base premiums (multiplier 1.0).
C29_CoverageByExactMatchOnly ==
    (tool_fn = "get_pricing_estimate" /\ RecognizedSize) =>
        /\ tool_error = "none"
        /\ IsEstimate(tool_out)
        /\ NormalizedInput \notin MultiplierKeys => PricedAtBase
        /\ NormalizedInput \in MultiplierKeys =>
              /\ ReportedLow > BaseOfSize.low
              /\ ReportedMid > BaseOfSize.mid
              /\ ReportedHigh > BaseOfSize.high
        /\ \A i \in 1..Len(PRODUCTS) :
              PRODUCTS[i].key \notin MultiplierKeys =>
                  Premiums(PRODUCTS[i].key, NormalizedSize)
                      = [low |-> BaseOfSize.low, mid |-> BaseOfSize.mid, high |-> BaseOfSize.high]

\* "ROBOTICS coverage": get_product_info finds the robotics product, which
\* has a multiplier, and the estimate is priced at the base premiums
C29_Witness ==
    /\ tool_fn = "get_pricing_estimate"
    /\ RecognizedSize
    /\ tool_in = RoboticsCoverageUpper
    /\ get_product_info(tool_in) = <<PRODUCTS[3].description>>
    /\ PRODUCTS[3].key \in MultiplierKeys
    /\ IsEstimate(tool_out)
    /\ PricedAtBase

(***************************************************************************)
(* chunk_by_tokens of the RAG demos (rag_utils.py): fixed-size token       *)
(* windows with overlap.  One action per iteration of the while loop.      *)
(***************************************************************************)

\* what one token chunking leaves alone
tok_frame == <<agent_vars, tool_vars, chunk_vars, search_vars, conc_vars, seed_vars,
               shared_vars, app_vars, sim_vars>>

\* the texts of the tokens of a document
TokenTexts == { <<"a">>, <<" ">>, <<" ", "b">> }

\* enc.encode(doc): the token sequences of the documents
TokenLists == UNION {[1..n -> TokenTexts] : n \in 0..MaxTokens}

\* enc.decode(chunk_tokens): the texts of the tokens, concatenated
RECURSIVE decode(_)
decode(toks) == IF toks = <<>> THEN <<>> ELSE Head(toks) \o decode(Tail(toks))

\* tokens[start:end] for 0 <= start <= end <= len(tokens), positions from 0
Slice(toks, from, to) == SubSeq(toks, from + 1, to)

\* [c for c in chunks if c]
RECURSIVE NonEmpty(_)
NonEmpty(cs) ==
    IF cs = <<>> THEN <<>>
    ELSE (IF Head(cs) # <<>> THEN <<Head(cs)>> ELSE <<>>) \o NonEmpty(Tail(cs))

Min(a, b) == IF a <= b THEN a ELSE b

TokInit ==
    /\ AgentIdle
    /\ ToolIdle
    /\ ChunkIdle
    /\ SearchIdle
    /\ ConcIdle
    /\ SeedIdle
    /\ AppIdle
    /\ SimIdle
    /\ registry = all_functions
    /\ tok_pc = "looping"
    /\ tokens \in TokenLists
    /\ max_tokens \in 1..MaxWindow
    /\ overlap_tokens \in 0..MaxWindow
    /\ overlap_tokens <= max_tokens
    /\ start = 0
    /\ windows = <<>>
    /\ raw_chunks = <<>>
    /\ token_chunks = <<>>

\* windows that follow one another without overlap
NextStartWithoutOverlap(end, overlap, n) == IF end < n THEN end ELSE n

\* start = end - overlap_tokens if end < len(tokens) else len(tokens)
NextStart(end, overlap, n) == IF end < n THEN end - overlap ELSE n

\* One iteration of the while loop.
TokStep ==
    /\ tok_pc = "looping"
    /\ start < Len(tokens)
    /\ Len(windows) < MaxSteps
    /\ LET end == Min(start + max_tokens, Len(tokens))
       IN  /\ windows' = Append(windows, [start |-> start, end |-> end])
           /\ raw_chunks' = Append(raw_chunks, strip(decode(Slice(tokens, start, end))))
           /\ start' = NextStart(end, overlap_tokens, Len(tokens))
    /\ UNCHANGED <<tok_pc, tokens, max_tokens, overlap_tokens, token_chunks>>
    /\ UNCHANGED tok_frame

\* The loop condition fails: the non-empty chunks are returned.
TokReturn ==
    /\ tok_pc = "looping"
    /\ ~ (start < Len(tokens))
    /\ tok_pc' = "returned"
    /\ token_chunks' = NonEmpty(raw_chunks)
    /\ UNCHANGED <<tokens, max_tokens, overlap_tokens, start, windows, raw_chunks>>
    /\ UNCHANGED tok_frame

TokNext == TokStep \/ TokReturn

TokSpec == TokInit /\ [][TokNext]_vars

\* the positions (from 0) of the tokens of window number i
WindowTokens(i) == windows[i].start .. (windows[i].end - 1)

\* 0 <= overlap_tokens < max_tokens
OverlapBelowWindow == 0 <= overlap_tokens /\ overlap_tokens < max_tokens

\* C30: with 0 <= overlap_tokens < max_tokens chunk_by_tokens terminates:
\* every iteration moves the window start forward, by max_tokens -
\* overlap_tokens from one window to the next, so there are at most as many
\* windows as tokens and the loop is never cut short by the step bound of
\* the model.  Every window holds between 1 and max_tokens tokens, two
\* consecutive windows share exactly overlap_tokens tokens, and at return
\* every token lies in a window and the last window ends at the last token.
C30_TokenWindowsCoverAndTerminate ==
    /\ [][(OverlapBelowWindow /\ start' # start) =>
            /\ start' > start
            /\ start' <= Len(tokens)]_vars
    /\ [](OverlapBelowWindow =>
            /\ Len(windows) <= Len(tokens)
            /\ start <= Len(tokens)
            /\ tok_pc = "looping" => (start < Len(tokens) => Len(windows) < MaxSteps)
            /\ \A i \in 1..Len(windows) :
                  /\ Cardinality(WindowTokens(i)) >= 1
                  /\ Cardinality(WindowTokens(i)) <= max_tokens
                  /\ windows[i].end <= Len(tokens)
            /\ \A i \in 1..(Len(windows) - 1) :
                  /\ windows[i + 1].start = windows[i].start + (max_tokens - overlap_tokens)
                  /\ Cardinality(WindowTokens(i) \cap WindowTokens(i + 1)) = overlap_tokens
            /\ tok_pc = "returned" =>
                  /\ \A t \in 0..(Len(tokens) - 1) :
                        \E i \in 1..Len(windows) : t \in WindowTokens(i)
                  /\ tokens # <<>> => windows[Len(windows)].end = Len(tokens)
                  /\ tokens = <<>> => windows = <<>>)

\* three windows of three tokens that overlap by one, the last one shorter
C30_Witness ==
    /\ tok_pc = "returned"
    /\ max_tokens = 3
    /\ overlap_tokens = 1
    /\ Len(tokens) = 6
    /\ Len(windows) = 3
    /\ windows[3] = [start |-> 4, end |-> 6]
    /\ Len(token_chunks) < Len(raw_chunks)

====
